---------------------------- MODULE Spec2Model ----------------------------
(***************************************************************************)
(* Verification model of the Twitter/X follower cleanup tool.              *)
(*                                                                         *)
(*   - the username classifier (utils.is_bot_username, config.BOT_DETECTION)*)
(*   - cell extraction (TwitterCleaner._extract_follower_info)             *)
(*   - the removal sub-protocol (TwitterCleaner._remove_follower_from_cell) *)
(*   - the batch scan-and-remove engine                                    *)
(*     (TwitterCleaner.scan_and_remove_in_batches, _scroll_to_end_of_list) *)
(*   - _remove_follower_from_cell step by step (RemoveSpec)                *)
(*   - is_bot_username as a call on bounded usernames (ClassifySpec)       *)
(*   - wait_for_login (LoginSpec, LoginFairSpec)                           *)
(*   - run (RunSpec)                                                       *)
(*                                                                         *)
(* Strings that the code inspects character by character (usernames,      *)
(* hrefs) are sequences of one-character strings.  The page driver         *)
(* (Playwright) is the environment: what it returns is chosen with \E.     *)
(***************************************************************************)
EXTENDS Integers, Sequences, FiniteSets, TLC

(***************************************************************************)
(* Characters                                                              *)
(***************************************************************************)
Digits == {"0", "1", "2", "3", "4", "5", "6", "7", "8", "9"}

LowerLetters == {"a", "b", "c", "d", "e", "f", "g", "h", "i", "j", "k", "l", "m",
                 "n", "o", "p", "q", "r", "s", "t", "u", "v", "w", "x", "y", "z"}

UpperLetters == {"A", "B", "C", "D", "E", "F", "G", "H", "I", "J", "K", "L", "M",
                 "N", "O", "P", "Q", "R", "S", "T", "U", "V", "W", "X", "Y", "Z"}

HexLetters == {"a", "b", "c", "d", "e", "f"}

\* \w of the regex dialect, restricted to ASCII
WordChars == Digits \cup LowerLetters \cup UpperLetters \cup {"_"}

AllIn(s, S) == \A i \in 1..Len(s) : s[i] \in S

SubStr(s, a, b) == [i \in 1..(b - a + 1) |-> s[a + i - 1]]

RECURSIVE TrailingDigits(_)
\* length of the maximal run of digits at the end of s
TrailingDigits(s) ==
    IF s = <<>> \/ s[Len(s)] \notin Digits THEN 0
    ELSE 1 + TrailingDigits(SubStr(s, 1, Len(s) - 1))

CountDigits(s) == Cardinality({i \in 1..Len(s) : s[i] \in Digits})

(***************************************************************************)
(* config.BOT_DETECTION.  Every pattern is applied with re.match, which    *)
(* anchors the match at the first character of the username and, unless    *)
(* the pattern ends in $, lets it end anywhere.                            *)
(***************************************************************************)
\* the K of  r".*\d{5,}$"
digit_suffix_min == 5

\* the pattern without its leading ".*": the whole name must be digits
digit_suffix_pattern_WholeName(u) ==
    Len(u) >= digit_suffix_min /\ AllIn(u, Digits)

\* r".*\d{5,}$"
digit_suffix_pattern(u) == TrailingDigits(u) >= digit_suffix_min

\* r"^[a-z]+\d{8}$"
Pat_lower_8digits(u) ==
    /\ Len(u) >= 9
    /\ AllIn(SubStr(u, Len(u) - 7, Len(u)), Digits)
    /\ AllIn(SubStr(u, 1, Len(u) - 8), LowerLetters)

\* r"^\w+_\d{5,}$"
Pat_word_underscore_digits(u) ==
    \E i \in 2..Len(u) :
        /\ u[i] = "_"
        /\ AllIn(SubStr(u, 1, i - 1), WordChars)
        /\ Len(u) - i >= 5
        /\ AllIn(SubStr(u, i + 1, Len(u)), Digits)

\* r"\d{6,}$"   (anchored at the start by re.match)
Pat_digits6_end(u) == Len(u) >= 6 /\ AllIn(u, Digits)

\* r"^\d{8,}$"
Pat_all_digits8(u) == Len(u) >= 8 /\ AllIn(u, Digits)

\* the pattern without its first lookahead: no digit is required
Pat_hex12_NoDigitLookahead(u) ==
    /\ Len(u) >= 12
    /\ AllIn(u, Digits \cup HexLetters)
    /\ \E i \in 1..Len(u) : u[i] \in HexLetters

\* r"^(?=[0-9a-f]*[0-9])(?=[0-9a-f]*[a-f])[0-9a-f]{12,}$"
Pat_hex12(u) ==
    /\ Len(u) >= 12
    /\ AllIn(u, Digits \cup HexLetters)
    /\ \E i \in 1..Len(u) : u[i] \in Digits
    /\ \E i \in 1..Len(u) : u[i] \in HexLetters

\* r"(\d{2,})\1{2,}"   (anchored at the start by re.match, open at the end)
Pat_chunk_repeat(u) ==
    \E g \in 2..Len(u) :
        /\ 3 * g <= Len(u)
        /\ AllIn(SubStr(u, 1, g), Digits)
        /\ SubStr(u, g + 1, 2 * g) = SubStr(u, 1, g)
        /\ SubStr(u, 2 * g + 1, 3 * g) = SubStr(u, 1, g)

\* r"(\d)\1{4,}"   (anchored at the start by re.match, open at the end)
Pat_same_digit5(u) ==
    /\ Len(u) >= 5
    /\ u[1] \in Digits
    /\ \A i \in 2..5 : u[i] = u[1]

\* r"^(?=(?:.*\d){6,}).*$"
Pat_digits6_anywhere(u) == CountDigits(u) >= 6

\* r"^[a-zA-Z]\d{6,}$"
Pat_letter_digits6(u) ==
    /\ Len(u) >= 7
    /\ u[1] \in LowerLetters \cup UpperLetters
    /\ AllIn(SubStr(u, 2, Len(u)), Digits)

\* r"_[12]\d{3}$"   (anchored at the start by re.match)
Pat_year_suffix(u) ==
    /\ Len(u) = 5
    /\ u[1] = "_"
    /\ u[2] \in {"1", "2"}
    /\ AllIn(SubStr(u, 3, 5), Digits)

\* BOT_DETECTION["suspicious_patterns"], in list order: does pattern i match u
suspicious_patterns(i, u) ==
    CASE i = 1  -> Pat_lower_8digits(u)
      [] i = 2  -> Pat_word_underscore_digits(u)
      [] i = 3  -> Pat_digits6_end(u)
      [] i = 4  -> Pat_all_digits8(u)
      [] i = 5  -> Pat_hex12(u)
      [] i = 6  -> Pat_chunk_repeat(u)
      [] i = 7  -> Pat_same_digit5(u)
      [] i = 8  -> Pat_digits6_anywhere(u)
      [] i = 9  -> Pat_letter_digits6(u)
      [] i = 10 -> Pat_year_suffix(u)

\* f"Matches suspicious pattern: {pattern}"
SuspiciousReason ==
    << "Matches suspicious pattern: ^[a-z]+\\d{8}$",
       "Matches suspicious pattern: ^\\w+_\\d{5,}$",
       "Matches suspicious pattern: \\d{6,}$",
       "Matches suspicious pattern: ^\\d{8,}$",
       "Matches suspicious pattern: ^(?=[0-9a-f]*[0-9])(?=[0-9a-f]*[a-f])[0-9a-f]{12,}$",
       "Matches suspicious pattern: (\\d{2,})\\1{2,}",
       "Matches suspicious pattern: (\\d)\\1{4,}",
       "Matches suspicious pattern: ^(?=(?:.*\\d){6,}).*$",
       "Matches suspicious pattern: ^[a-zA-Z]\\d{6,}$",
       "Matches suspicious pattern: _[12]\\d{3}$" >>

DigitSuffixReason == "Username ends with 3+ consecutive digits"

\* the loop does not return at the first match: the last matching rule wins
is_bot_username_LastMatch(u) ==
    LET hits == {i \in 1..Len(SuspiciousReason) : suspicious_patterns(i, u)}
    IN  IF hits # {}
        THEN <<TRUE, SuspiciousReason[CHOOSE i \in hits : \A j \in hits : i >= j]>>
        ELSE IF digit_suffix_pattern(u) THEN <<TRUE, DigitSuffixReason>>
        ELSE <<FALSE, "">>

\* utils.is_bot_username: <<is_bot, reason>>, first matching rule wins
is_bot_username(u) ==
    IF digit_suffix_pattern(u) THEN <<TRUE, DigitSuffixReason>>
    ELSE LET hits == {i \in 1..Len(SuspiciousReason) : suspicious_patterns(i, u)}
         IN  IF hits = {} THEN <<FALSE, "">>
             ELSE <<TRUE, SuspiciousReason[CHOOSE i \in hits : \A j \in hits : i <= j]>>


(***************************************************************************)
(* Bounds of the model                                                     *)
(***************************************************************************)
\* cells the page driver renders in one tick
MaxCells == 2

\* largest --limit value tried
MaxLimit == 1

\* document.body.scrollHeight takes the values 0..MaxHeight
MaxHeight == 1

\* LIMITS["max_scroll_attempts"] (150 in config.py), scaled down: the engine
\* is parametric in it and the ceiling has to be reachable with a few accounts
max_scroll_attempts == 5

(***************************************************************************)
(* Program constants                                                       *)
(***************************************************************************)
\* LIMITS["max_removals_per_session"]
max_removals_per_session == 1000

\* "if no_new_followers_count >= 3"
no_new_followers_limit == 3

\* "while same_height_count < 5"
same_height_limit == 5

(***************************************************************************)
(* utils.FollowerInfo and cell extraction                                  *)
(***************************************************************************)
\* the reason is not stored
FollowerInfo_NoReason(username, is_bot, bot_reason) ==
    [username |-> username, is_bot |-> is_bot, bot_reason |-> "",
     removed |-> FALSE, removal_error |-> ""]

\* dataclass FollowerInfo (display_name and timestamp are informational and
\* are left out)
FollowerInfo(username, is_bot, bot_reason) ==
    [username |-> username, is_bot |-> is_bot, bot_reason |-> bot_reason,
     removed |-> FALSE, removal_error |-> ""]

\* Python's None as the result of _extract_follower_info: a real record never
\* has an empty username
None == FollowerInfo(<<>>, FALSE, "")

RECURSIVE StripLeft(_)
StripLeft(s) == IF s # <<>> /\ Head(s) = "/" THEN StripLeft(Tail(s)) ELSE s

RECURSIVE StripRight(_)
StripRight(s) ==
    IF s # <<>> /\ s[Len(s)] = "/" THEN StripRight(SubStr(s, 1, Len(s) - 1)) ELSE s

\* href.strip("/")
Strip(s) == StripRight(StripLeft(s))

RECURSIVE FirstSegment(_)
\* s.split("/")[0]
FirstSegment(s) ==
    IF s = <<>> \/ Head(s) = "/" THEN <<>> ELSE <<Head(s)>> \o FirstSegment(Tail(s))

ReservedPaths ==
    { <<"h", "o", "m", "e">>,
      <<"e", "x", "p", "l", "o", "r", "e">>,
      <<"n", "o", "t", "i", "f", "i", "c", "a", "t", "i", "o", "n", "s">>,
      <<"m", "e", "s", "s", "a", "g", "e", "s">> }

\* A rendered UserCell as the driver answers for it:
\*   kind = "nolink"  query_selector(user_name_link) finds nothing
\*   kind = "nohref"  the link has no href attribute
\*   kind = "raises"  a driver call raises
\*   kind = "href"    the link's href is cell.href
Cell(kind, href) == [kind |-> kind, href |-> href]

\* the username is not compared with the reserved paths
extract_follower_info_NoReservedCheck(cell) ==
    IF cell.kind # "href" THEN None
    ELSE IF cell.href = <<>> \/ cell.href = <<"/">> THEN None
    ELSE LET username == FirstSegment(Strip(cell.href))
             verdict  == is_bot_username(username)
         IN  IF username = <<>> THEN None
             ELSE FollowerInfo(username, verdict[1], verdict[2])

\* TwitterCleaner._extract_follower_info
extract_follower_info(cell) ==
    IF cell.kind # "href" THEN None
    ELSE IF cell.href = <<>> \/ cell.href = <<"/">> THEN None
    ELSE LET username == FirstSegment(Strip(cell.href))
             verdict  == is_bot_username(username)
         IN  IF username = <<>> \/ username \in ReservedPaths THEN None
             ELSE FollowerInfo(username, verdict[1], verdict[2])

\* The cells of the modelled followers page
hrefAlice == <<"/", "a", "l", "i", "c", "e">>
hrefBot   == <<"/", "b", "o", "t", "1", "2", "3", "4", "5">>
hrefYear  == <<"/", "_", "2", "0", "2", "4", "/", "f", "o", "l", "l", "o", "w", "e", "r", "s">>
hrefHome  == <<"/", "h", "o", "m", "e">>

CellUniverse ==
    { Cell("href", hrefAlice), Cell("href", hrefBot), Cell("href", hrefYear),
      Cell("href", hrefHome) }

hrefExplore       == <<"/", "e", "x", "p", "l", "o", "r", "e">>
hrefNotifications ==
    <<"/", "n", "o", "t", "i", "f", "i", "c", "a", "t", "i", "o", "n", "s">>
hrefMessages      == <<"/", "m", "e", "s", "s", "a", "g", "e", "s">>

\* Every cell a page can render: the cells above and the cells without a
\* usable profile link
PageCells ==
    CellUniverse \cup
    { Cell("nolink", <<>>), Cell("nohref", <<>>), Cell("raises", <<>>),
      Cell("href", <<>>), Cell("href", <<"/">>), Cell("href", hrefExplore),
      Cell("href", hrefNotifications), Cell("href", hrefMessages) }

\* _extract_follower_info on the cells a page can render
Extracted == [c \in PageCells |-> extract_follower_info(c)]

\* what page.query_selector_all(follower_cell) can return
CellLists == UNION { [1..n -> CellUniverse] : n \in 0..MaxCells }

Reverse(s) == [i \in 1..Len(s) |-> s[Len(s) + 1 - i]]

(***************************************************************************)
(* The removal sub-protocol                                                *)
(***************************************************************************)
\* How the driver behaves during one _remove_follower_from_cell call
\*   scroll_raises        cell.scroll_into_view_if_needed() raises
\*   more_btn             "selector": one of menu_selectors matches,
\*                        "fallback": a button with "more" in its aria-label,
\*                        "none"
\*   more_click_raises    more_btn.click() raises
\*   menu                 "match": a menu item carries a remove phrase,
\*                        "no_match", "timeout": wait_for_selector raises
\*   remove_click_raises  remove_btn.click() raises
\*   confirm              "absent": wait_for_selector times out,
\*                        "clicked", "click_raises"
DriverBehaviours ==
    { d \in [scroll_raises : BOOLEAN,
             more_btn : {"selector", "fallback", "none"},
             more_click_raises : BOOLEAN,
             menu : {"match", "no_match", "timeout"},
             remove_click_raises : BOOLEAN,
             confirm : {"absent", "clicked", "click_raises"}] :
        \* what follows the step that ends the call is not observed
        /\ d.scroll_raises => d.more_btn = "none"
        /\ d.more_btn = "none" => ~d.more_click_raises
        /\ d.more_click_raises => d.menu = "timeout"
        /\ d.menu # "match" => ~d.remove_click_raises
        /\ (d.menu # "match" \/ d.remove_click_raises) => d.confirm = "absent" }

\* TwitterCleaner._find_remove_button: TRUE iff an item is returned
find_remove_button(d) == d.menu = "match"

\* TwitterCleaner._remove_follower_from_cell:
\* [success |-> return value, escape |-> Escape was pressed]
remove_follower_from_cell(d) ==
    IF d.scroll_raises THEN [success |-> FALSE, escape |-> TRUE]
    ELSE IF d.more_btn = "none" THEN [success |-> FALSE, escape |-> FALSE]
    ELSE IF d.more_click_raises THEN [success |-> FALSE, escape |-> TRUE]
    ELSE IF ~find_remove_button(d) THEN [success |-> FALSE, escape |-> TRUE]
    ELSE IF d.remove_click_raises THEN [success |-> FALSE, escape |-> TRUE]
    ELSE [success |-> TRUE, escape |-> FALSE]

(***************************************************************************)
(* State of the other procedures.  Each procedure is a state machine on    *)
(* one record; while one machine runs the others rest in their idle state. *)
(***************************************************************************)
VARIABLES
    cl,     \* is_bot_username: the username given and the pair returned
    rm,     \* _remove_follower_from_cell on one cell, and the caller's marking
    lg,     \* wait_for_login
    rn,     \* run
    nv,     \* navigate_to_followers
    mn,     \* main_async: the browser's lifetime and the exit code
    sc,     \* the scan loop of one tick over the cells of one page
    rf,     \* remove_follower(username)
    pb,     \* process_bot_removals
    cp      \* the count of removals of a session against the session cap

otherVars == << cl, rm, lg, rn, nv, mn, sc, rf, pb, cp >>

clIdle == [stage |-> "idle"]

rmIdle == [pc |-> "idle"]

lgIdle == [pc |-> "idle"]

rnIdle == [pc |-> "idle"]

nvIdle == [pc |-> "idle"]

mnIdle == [pc |-> "idle"]

scIdle == [pc |-> "idle"]

rfIdle == [pc |-> "idle"]

pbIdle == [pc |-> "idle"]

cpIdle == [pc |-> "idle"]

(***************************************************************************)
(* The batch scan-and-remove engine                                        *)
(***************************************************************************)
VARIABLES
    args,                    \* the call's arguments, fixed for the run
    dry_run,                 \* the local dry_run (a decline sets it)
    removal_limit,
    first_removal,
    scroll_count,
    no_new_followers_count,
    new_followers_found,
    batch_bots,              \* indices into followers of this tick's new bots
    batch_pos,               \* the for loop's position in batch_bots
    last_height,             \* _scroll_to_end_of_list
    same_height_count,       \* _scroll_to_end_of_list
    scanned_usernames,       \* self.scanned_usernames
    followers,               \* self.followers
    removed_count,           \* self.removed_count
    failed_count,            \* self.failed_count
    pc,                      \* "scroll_to_end", "tick", "confirm", "remove",
                             \* "end_tick", "done" (returned), "raised"
    stop_reason,             \* which exit of the while loop was taken
    \* observations of the run, written by nothing the code reads
    ticks,                   \* harvests performed
    scrolls,                 \* scrolls issued by the scan loop
    attempts,                \* <<username, success>> per removal attempt
    prompts,                 \* confirm_action calls
    declined,                \* the operator answered no
    declined_len,            \* Len(followers) when that happened
    empty_streak,            \* consecutive harvests that appended nothing
    presented,               \* usernames of every extractable cell rendered
    dup_seen,                \* some harvest met an already scanned username
    tick_bots                \* usernames of the bots the page of this tick
                             \* shows for the first time, in harvest order

engineVars == << args, dry_run, removal_limit, first_removal, scroll_count,
           no_new_followers_count, new_followers_found, batch_bots, batch_pos,
           last_height, same_height_count, scanned_usernames, followers,
           removed_count, failed_count, pc, stop_reason, ticks, scrolls,
           attempts, prompts, declined, declined_len, empty_streak, presented,
           dup_seen, tick_bots >>

vars == << engineVars, otherVars >>

\* Arguments of scan_and_remove_in_batches.  main.py always passes an integer
\* limit; limit=None takes the same branch of "limit or ..." as limit=0.
ArgSets ==
    [dry_run : BOOLEAN, limit : 0..MaxLimit,
     require_confirmation : BOOLEAN, from_end : BOOLEAN]

\* removal_limit = limit or LIMITS["max_removals_per_session"]
RemovalLimit(limit) ==
    IF limit # 0 THEN limit ELSE max_removals_per_session

\* the loop condition off by one
KeepScrolling_OffByOne(count) == count <= max_scroll_attempts

\* "while scroll_count < LIMITS['max_scroll_attempts']"
KeepScrolling(count) == count < max_scroll_attempts

\* the seen-set is not consulted
IsNewFollower_NoSeenCheck(follower, scanned) == follower # None

\* "if follower and follower.username not in self.scanned_usernames"
IsNewFollower(follower, scanned) ==
    follower # None /\ follower.username \notin scanned

\* dry_run is not consulted
ShouldProcessBatch_IgnoreDryRun(batch, dry) == batch # <<>>

\* "if batch_bots and not dry_run"
ShouldProcessBatch(batch, dry) == batch # <<>> /\ ~dry

\* > for >=
LimitReached_Strict(count, lim) == count > lim

\* "if self.removed_count >= removal_limit"
LimitReached(count, lim) == count >= lim

\* a successful removal also clears the reason of the verdict
MarkResult_ClearsReason(follower, success) ==
    IF success THEN [follower EXCEPT !.removed = TRUE, !.bot_reason = ""]
    ELSE [follower EXCEPT !.removal_error = "Failed to remove"]

\* a failed attempt leaves no trace on the record
MarkResult_NoError(follower, success) ==
    IF success THEN [follower EXCEPT !.removed = TRUE] ELSE follower

\* the record is marked removed whatever the attempt returned
MarkResult_AlwaysRemoved(follower, success) == [follower EXCEPT !.removed = TRUE]

\* the success / failure branches after _remove_follower_from_cell
MarkResult(follower, success) ==
    IF success THEN [follower EXCEPT !.removed = TRUE]
    ELSE [follower EXCEPT !.removal_error = "Failed to remove"]

\* the else branch that resets the counter is missing
NoNewCount_NoReset(count, new_found) == IF new_found = 0 THEN count + 1 ELSE count

\* the update of no_new_followers_count at the end of a tick
NoNewCount(count, new_found) == IF new_found = 0 THEN count + 1 ELSE 0

\* first_removal is not consulted: every batch asks again
NeedsConfirmation_EveryBatch(first, require_confirmation) ==
    require_confirmation

\* "if first_removal and require_confirmation"
NeedsConfirmation(first, require_confirmation) ==
    first /\ require_confirmation

\* the cells are never reversed
HarvestOrder_NeverReversed(rendered, from_end) == rendered

\* "if from_end: cells = list(reversed(cells))"
HarvestOrder(rendered, from_end) ==
    IF from_end THEN Reverse(rendered) ELSE rendered

RECURSIVE Ascending(_)
\* a finite set of integers as an increasing sequence
Ascending(S) ==
    IF S = {} THEN <<>>
    ELSE LET m == CHOOSE x \in S : \A y \in S : x <= y
         IN  <<m>> \o Ascending(S \ {m})

\* What the page shows: the usernames of the bots among the rendered cells
\* that were not scanned before, each at its first place when the page is read
\* from the top, or from the bottom when from_end is active
NewBotsOf(rendered, from_end, scanned) ==
    LET n       == Len(rendered)
        at(k)   == IF from_end THEN rendered[n + 1 - k] ELSE rendered[k]
        name(k) == Extracted[at(k)].username
        first   == { k \in 1..n :
                       /\ Extracted[at(k)] # None
                       /\ Extracted[at(k)].is_bot
                       /\ name(k) \notin scanned
                       /\ \A j \in 1..(k - 1) : name(j) # name(k) }
        order   == Ascending(first)
    IN  [k \in 1..Len(order) |-> name(order[k])]

\* the body of "for cell in cells" on the loop's state
ScanCell(st, cell) ==
    LET follower == Extracted[cell]
    IN  IF IsNewFollower(follower, st.scanned)
        THEN [scanned   |-> st.scanned \cup {follower.username},
              followers |-> Append(st.followers, follower),
              new_found |-> st.new_found + 1,
              batch     |-> IF follower.is_bot
                            THEN Append(st.batch, Len(st.followers) + 1)
                            ELSE st.batch]
        ELSE st

RECURSIVE ScanCells(_, _)
ScanCells(st, cells) ==
    IF cells = <<>> THEN st ELSE ScanCells(ScanCell(st, Head(cells)), Tail(cells))

Init ==
    /\ args \in ArgSets
    /\ dry_run = args.dry_run
    /\ removal_limit = RemovalLimit(args.limit)
    /\ first_removal = TRUE
    /\ scroll_count = 0
    /\ no_new_followers_count = 0
    /\ new_followers_found = 0
    /\ batch_bots = <<>>
    /\ batch_pos = 1
    /\ last_height = 0
    /\ same_height_count = 0
    /\ scanned_usernames = {}
    /\ followers = <<>>
    /\ removed_count = 0
    /\ failed_count = 0
    /\ pc = IF args.from_end THEN "scroll_to_end" ELSE "tick"
    /\ stop_reason = ""
    /\ ticks = 0
    /\ scrolls = 0
    /\ attempts = <<>>
    /\ prompts = 0
    /\ declined = FALSE
    /\ declined_len = 0
    /\ empty_streak = 0
    /\ presented = {}
    /\ dup_seen = FALSE
    /\ tick_bots = <<>>
    /\ cl = clIdle
    /\ rm = rmIdle
    /\ lg = lgIdle
    /\ rn = rnIdle
    /\ nv = nvIdle
    /\ sc = scIdle
    /\ cp = cpIdle
    /\ rf = rfIdle
    /\ pb = pbIdle
    /\ mn = mnIdle

\* One iteration of the while loop of _scroll_to_end_of_list.  When the loop
\* ends the function returns and its locals are gone.
ScrollToEndStep ==
    /\ pc = "scroll_to_end"
    /\ \E new_height \in 0..MaxHeight :
         LET c == IF new_height = last_height THEN same_height_count + 1 ELSE 0
         IN  IF c < same_height_limit
             THEN /\ same_height_count' = c
                  /\ last_height' = new_height
                  /\ pc' = "scroll_to_end"
             ELSE /\ same_height_count' = 0
                  /\ last_height' = 0
                  /\ pc' = "tick"
    /\ UNCHANGED << args, dry_run, removal_limit, first_removal, scroll_count,
                    no_new_followers_count, new_followers_found, batch_bots,
                    batch_pos, scanned_usernames, followers, removed_count,
                    failed_count, stop_reason, ticks, scrolls, attempts, prompts,
                    declined, declined_len, empty_streak, presented, dup_seen,
                    tick_bots >>
    /\ UNCHANGED otherVars

\* a tick up to the removals: page-error check, query_selector_all, the scan loop
Harvest ==
    /\ pc = "tick"
    /\ \E rendered \in CellLists :
         LET cells == HarvestOrder(rendered, args.from_end)
             st    == ScanCells([scanned |-> scanned_usernames,
                                 followers |-> followers,
                                 new_found |-> 0, batch |-> <<>>], cells)
             valid == {i \in 1..Len(cells) : Extracted[cells[i]] # None}
         IN  /\ scanned_usernames' = st.scanned
             /\ followers' = st.followers
             /\ new_followers_found' = st.new_found
             /\ batch_bots' = st.batch
             /\ tick_bots' = NewBotsOf(rendered, args.from_end, scanned_usernames)
             /\ batch_pos' = 1
             /\ pc' = IF ShouldProcessBatch(st.batch, dry_run)
                      THEN IF NeedsConfirmation(first_removal,
                                                args.require_confirmation)
                           THEN "confirm" ELSE "remove"
                      ELSE "end_tick"
             /\ presented' = presented \cup
                    {Extracted[cells[i]].username : i \in valid}
             /\ dup_seen' = (dup_seen \/
                    Cardinality(valid) > Len(st.followers) - Len(followers))
             /\ empty_streak' = IF Len(st.followers) = Len(followers)
                                THEN empty_streak + 1 ELSE 0
    /\ ticks' = ticks + 1
    /\ UNCHANGED << args, dry_run, removal_limit, first_removal, scroll_count,
                    no_new_followers_count, last_height, same_height_count,
                    removed_count, failed_count, stop_reason, scrolls, attempts,
                    prompts, declined, declined_len >>
    /\ UNCHANGED otherVars

\* "First time confirmation": confirm_action("Start removing bots ...")
Confirm ==
    /\ pc = "confirm"
    /\ prompts' = prompts + 1
    /\ \E answer \in BOOLEAN :
         IF answer
         THEN /\ first_removal' = FALSE
              /\ pc' = "remove"
              /\ UNCHANGED << dry_run, declined, declined_len >>
         ELSE /\ dry_run' = TRUE
              /\ pc' = "end_tick"
              /\ declined' = TRUE
              /\ declined_len' = Len(followers)
              /\ UNCHANGED first_removal
    /\ UNCHANGED << args, removal_limit, scroll_count, no_new_followers_count,
                    new_followers_found, batch_bots, batch_pos, last_height,
                    same_height_count, scanned_usernames, followers,
                    removed_count, failed_count, stop_reason, ticks, scrolls,
                    attempts, empty_streak, presented, dup_seen,
                    tick_bots >>
    /\ UNCHANGED otherVars

\* one iteration of "for follower, cell in batch_bots"
RemoveNext ==
    /\ pc = "remove"
    /\ batch_pos <= Len(batch_bots)
    /\ IF LimitReached(removed_count, removal_limit)
       THEN /\ pc' = "end_tick"
            /\ UNCHANGED << followers, removed_count, failed_count, attempts,
                            batch_pos >>
       ELSE \E d \in DriverBehaviours :
              LET i  == batch_bots[batch_pos]
                  ok == remove_follower_from_cell(d).success
              IN  /\ followers' = [followers EXCEPT ![i] = MarkResult(@, ok)]
                  /\ removed_count' = IF ok THEN removed_count + 1 ELSE removed_count
                  /\ failed_count' = IF ok THEN failed_count ELSE failed_count + 1
                  /\ attempts' = Append(attempts, <<followers[i].username, ok>>)
                  /\ batch_pos' = batch_pos + 1
                  /\ pc' = IF batch_pos + 1 <= Len(batch_bots)
                           THEN "remove" ELSE "end_tick"
    /\ UNCHANGED << args, dry_run, removal_limit, first_removal, scroll_count,
                    no_new_followers_count, new_followers_found, batch_bots,
                    last_height, same_height_count, scanned_usernames,
                    stop_reason, ticks, scrolls, prompts, declined, declined_len,
                    empty_streak, presented, dup_seen,
                    tick_bots >>
    /\ UNCHANGED otherVars

\* The end of a tick: the stop checks, the scroll and the loop condition.  When
\* the loop goes round, the next iteration starts by resetting its locals
\* (new_followers_found = 0, batch_bots = []).
EndTick ==
    /\ pc = "end_tick"
    /\ IF LimitReached(removed_count, removal_limit)
       THEN /\ pc' = "done"
            /\ stop_reason' = "limit"
            /\ UNCHANGED << no_new_followers_count, scroll_count, scrolls,
                            new_followers_found, batch_bots, batch_pos, tick_bots >>
       ELSE LET n == NoNewCount(no_new_followers_count, new_followers_found)
            IN  /\ no_new_followers_count' = n
                /\ IF new_followers_found = 0 /\ n >= no_new_followers_limit
                   THEN /\ pc' = "done"
                        /\ stop_reason' = "no_new"
                        /\ UNCHANGED << scroll_count, scrolls,
                                        new_followers_found, batch_bots, batch_pos, tick_bots >>
                   ELSE \E scroll_raises \in BOOLEAN :
                          IF scroll_raises
                          THEN /\ pc' = "raised"
                               /\ stop_reason' = "raised"
                               /\ UNCHANGED << scroll_count, scrolls,
                                               new_followers_found, batch_bots,
                                               batch_pos, tick_bots >>
                          ELSE /\ scrolls' = scrolls + 1
                               /\ scroll_count' = scroll_count + 1
                               /\ IF KeepScrolling(scroll_count + 1)
                                  THEN /\ pc' = "tick"
                                       /\ new_followers_found' = 0
                                       /\ batch_bots' = <<>>
                                       /\ tick_bots' = <<>>
                                       /\ batch_pos' = 1
                                       /\ UNCHANGED stop_reason
                                  ELSE /\ pc' = "done"
                                       /\ stop_reason' = "ceiling"
                                       /\ UNCHANGED << new_followers_found,
                                                       batch_bots, batch_pos, tick_bots >>
    /\ UNCHANGED << args, dry_run, removal_limit, first_removal, last_height,
                    same_height_count, scanned_usernames, followers,
                    removed_count, failed_count, ticks, attempts, prompts,
                    declined, declined_len, empty_streak, presented, dup_seen >>
    /\ UNCHANGED otherVars

\* a driver call outside the guarded helpers raises (page.evaluate in
\* _scroll_to_end_of_list, query_selector_all at the start of a tick): the
\* exception leaves scan_and_remove_in_batches
DriverRaises ==
    /\ pc \in {"scroll_to_end", "tick"}
    /\ pc' = "raised"
    /\ stop_reason' = "raised"
    /\ UNCHANGED << args, dry_run, removal_limit, first_removal, scroll_count,
                    no_new_followers_count, new_followers_found, batch_bots,
                    batch_pos, last_height, same_height_count, scanned_usernames,
                    followers, removed_count, failed_count, ticks, scrolls,
                    attempts, prompts, declined, declined_len, empty_streak,
                    presented, dup_seen, tick_bots >>
    /\ UNCHANGED otherVars

Next ==
    \/ ScrollToEndStep
    \/ Harvest
    \/ Confirm
    \/ RemoveNext
    \/ EndTick
    \/ DriverRaises

Spec == Init /\ [][Next]_vars

\* the interpreter keeps running the coroutine: some step is always taken
FairSpec == Spec /\ WF_vars(Next)

Terminated == pc \in {"done", "raised"}

Usernames(fs) == {fs[i].username : i \in 1..Len(fs)}

Bots(fs) == {i \in 1..Len(fs) : fs[i].is_bot}

Removed(fs) == {i \in 1..Len(fs) : fs[i].removed}

(***************************************************************************)
(* Properties of the batch engine                                          *)
(***************************************************************************)

\* C1: the follower list never holds two records with the same username, and
\* the usernames in it are exactly scanned_usernames, however often the driver
\* presents a cell again.
C1_NoDuplicateFollowers ==
    /\ \A i, j \in 1..Len(followers) :
         i # j => followers[i].username # followers[j].username
    /\ Usernames(followers) = scanned_usernames

\* a later tick presented an account that was already in the list
C1_Witness == dup_seen /\ ticks >= 2 /\ Len(followers) >= 2

\* C2: a run called with dry_run=True never prompts and never attempts a
\* removal: both counters stay 0 and no record is marked.
C2_DryRunRemovesNothing ==
    args.dry_run =>
        /\ attempts = <<>>
        /\ prompts = 0
        /\ removed_count = 0
        /\ failed_count = 0
        /\ \A i \in 1..Len(followers) :
             ~followers[i].removed /\ followers[i].removal_error = ""

\* a dry run that harvested both bots and returned
C2_Witness ==
    args.dry_run /\ pc = "done" /\ Cardinality(Bots(followers)) = 2

\* C3: for every limit N >= 0 the number of records with removed=true never
\* exceeds N.
C3_RemovedWithinLimit == Cardinality(Removed(followers)) <= args.limit

\* C4: once removed_count has reached the removal limit, no step makes a
\* removal attempt, harvests or scrolls: the run only breaks out of the for
\* loop and returns.
C4_StopsAtLimit ==
    [][ removed_count >= removal_limit =>
            /\ attempts' = attempts
            /\ ticks' = ticks
            /\ scrolls' = scrolls
            /\ pc' \in {"end_tick", "done"} ]_vars

\* the limit was reached with bots of the batch still waiting
C4_Witness ==
    pc = "done" /\ stop_reason = "limit" /\ batch_pos <= Len(batch_bots)

\* C5 as claimed: a live run that met more than N bots returns with exactly N
\* records removed (taken for N >= 1; N = 0 is the subject of C3).
C5_ExactlyLimitRemoved ==
    (/\ pc = "done" /\ ~args.dry_run /\ args.limit >= 1
     /\ Cardinality(Bots(followers)) > args.limit)
        => Cardinality(Removed(followers)) = args.limit

\* C5 amended: a live run returns with at most L records removed, where L is N
\* for N >= 1 and max_removals_per_session for N = 0; with exactly L iff it
\* stopped on the limit check; and it does so when it met more than L bots, the
\* confirmation was not declined and no attempt failed.
C5_AtMostLimitRemoved ==
    (pc = "done" /\ ~args.dry_run) =>
        LET L == IF args.limit >= 1 THEN args.limit ELSE max_removals_per_session
            r == Cardinality(Removed(followers))
        IN  /\ r <= L
            /\ r = L <=> stop_reason = "limit"
            /\ (Cardinality(Bots(followers)) > L /\ ~declined /\ failed_count = 0)
                   => r = L

\* limit 1, two bots met, one removed
C5_Witness ==
    /\ pc = "done" /\ ~args.dry_run /\ args.limit = 1
    /\ Cardinality(Bots(followers)) = 2
    /\ Cardinality(Removed(followers)) = 1

\* C6: after the operator declined the first confirmation no removal attempt
\* is ever made and no record is removed, while every account the driver
\* presents is still classified and in the follower list.
C6_DeclineStopsRemovals ==
    declined =>
        /\ attempts = <<>>
        /\ removed_count = 0
        /\ Removed(followers) = {}
        /\ pc \in {"tick", "end_tick", "done", "raised"}
        /\ presented = Usernames(followers)
        /\ \A i \in 1..Len(followers) :
             followers[i].is_bot = is_bot_username(followers[i].username)[1]

\* a bot was appended after the decline
C6_Witness ==
    /\ declined
    /\ \E i \in 1..Len(followers) : i > declined_len /\ followers[i].is_bot

\* C7: the loop stops on the end-of-list condition exactly at the third
\* consecutive harvest that appended nothing, without scrolling again; a
\* harvest that appends a record resets the counter.
C7_StopsAtThirdEmptyTick ==
    /\ stop_reason = "no_new" => (empty_streak = 3 /\ scrolls = ticks - 1)
    /\ empty_streak >= 3 =>
         /\ empty_streak = 3
         /\ pc \in {"end_tick", "done"}
         /\ pc = "done" => stop_reason = "no_new"
    /\ pc = "tick" => no_new_followers_count = empty_streak

\* empty, one new account, then three empty ticks
C7_Witness == stop_reason = "no_new" /\ ticks = 5 /\ Len(followers) = 1

\* C8: never more than max_scroll_attempts harvests, and a run with
\* from_end=False ends.
C8_TickCeiling ==
    /\ [](ticks <= max_scroll_attempts)
    /\ (~args.from_end) ~> Terminated

\* the ceiling ended a run that kept finding accounts
C8_Witness ==
    /\ pc = "done" /\ stop_reason = "ceiling" /\ ~args.from_end
    /\ ticks = max_scroll_attempts

\* C9: every run terminates.
C9_AlwaysTerminates == <>Terminated

AttemptMade == attempts' # attempts

\* is_bot_username on the usernames the pages can show
Verdict ==
    [name \in {Extracted[c].username : c \in PageCells} |->
        is_bot_username(name)]

\* every account the pages have shown so far has its record, classified by
\* is_bot_username
AllHarvested ==
    /\ presented \subseteq scanned_usernames
    /\ \A name \in presented :
           \E i \in 1..Len(followers) :
               /\ followers[i].username = name
               /\ followers[i].is_bot = Verdict[name][1]

\* C29: in each tick every rendered cell is harvested and classified before
\* the tick's first removal attempt; attempts are made one at a time, in the
\* order of the page (reversed when from_end is active), and only for bots
\* the page of that tick shows for the first time.
C29_AttemptsFollowHarvestOrder ==
    [][ /\ ticks' # ticks => batch_pos' = 1
        /\ AttemptMade =>
               /\ AllHarvested
               /\ batch_pos \in 1..Len(tick_bots)
               /\ attempts' = Append(attempts,
                                 <<tick_bots[batch_pos],
                                   attempts'[Len(attempts')][2]>>)
               /\ batch_pos' = batch_pos + 1
               /\ Verdict[tick_bots[batch_pos]][1] ]_vars

\* a first tick read from the bottom of the list attempted its two bots in
\* the order of the reversed page
C29_Witness ==
    /\ args.from_end
    /\ ticks = 1
    /\ pc = "end_tick"
    /\ Len(tick_bots) = 2
    /\ tick_bots[1] # tick_bots[2]
    /\ Len(attempts) = 2
    /\ attempts[1][1] = tick_bots[1]
    /\ attempts[2][1] = tick_bots[2]
    /\ attempts[1][2] /\ ~attempts[2][2]

\* the records of followers that are bots, by position
BotIndexes == {i \in 1..Len(followers) : followers[i].is_bot}

\* C30: with require_confirmation and without dry_run the operator is asked
\* at most once, in the first tick whose harvest holds a bot, and no removal
\* is attempted before the answer was yes; without require_confirmation the
\* operator is never asked.
C30_ConfirmedOnceBeforeRemovals ==
    /\ ~args.require_confirmation => prompts = 0
    /\ (args.require_confirmation /\ ~args.dry_run) =>
           /\ prompts <= 1
           /\ attempts # <<>> => (prompts = 1 /\ ~declined)
           /\ pc = "confirm" =>
                  /\ prompts = 0
                  /\ batch_bots # <<>>
                  /\ BotIndexes = {batch_bots[k] : k \in 1..Len(batch_bots)}
           /\ (prompts = 0 /\ pc # "confirm") => BotIndexes = {}

\* the operator said yes in the first tick; the bot of the second tick was
\* attempted without a second question
C30_Witness ==
    /\ args.require_confirmation
    /\ ~args.dry_run
    /\ ticks = 2
    /\ pc = "end_tick"
    /\ Len(tick_bots) = 1
    /\ Len(attempts) = 2
    /\ prompts = 1

\* C35: once a record is in the follower list its username, is_bot and
\* bot_reason never change and its position never changes (the list is
\* append-only), however many later ticks present the same cell again; only
\* removed and removal_error are written afterwards.
C35_RecordsKeepIdentity ==
    [][ /\ Len(followers') >= Len(followers)
        /\ \A i \in 1..Len(followers) :
               /\ followers'[i].username = followers[i].username
               /\ followers'[i].is_bot = followers[i].is_bot
               /\ followers'[i].bot_reason = followers[i].bot_reason ]_vars

\* a bot was removed, and a later tick presented a scanned account again
C35_Witness ==
    /\ dup_seen
    /\ ticks >= 3
    /\ \E i \in 1..Len(followers) :
           followers[i].removed /\ followers[i].bot_reason # ""
    /\ \E i \in 1..Len(followers) : followers[i].removal_error # ""

\* C37: in the batch path each record receives at most one removal attempt
\* during a run: a bot whose removal failed, or that was skipped because the
\* confirmation was declined, is never attempted again in a later tick even
\* if its cell is presented again.
C37_AtMostOneAttemptPerRecord ==
    /\ \A j, k \in 1..Len(attempts) :
           j # k => attempts[j][1] # attempts[k][1]
    /\ \A k \in 1..Len(attempts) :
           \E i \in 1..Len(followers) :
               /\ followers[i].username = attempts[k][1]
               /\ followers[i].removed = attempts[k][2]
               /\ (followers[i].removal_error # "") = ~attempts[k][2]
    /\ declined => attempts = <<>>

\* the only account of the list is a bot whose removal failed; a later tick
\* presented it again and the run ended with that single attempt
C37_Witness ==
    /\ pc = "done"
    /\ Len(followers) = 1
    /\ attempts = <<<<followers[1].username, FALSE>>>>
    /\ dup_seen
    /\ ticks >= 2


(***************************************************************************)
(* The engine at rest, for the specifications of the other procedures      *)
(***************************************************************************)
EngineIdle ==
    /\ args = [dry_run |-> TRUE, limit |-> 0,
               require_confirmation |-> FALSE, from_end |-> FALSE]
    /\ dry_run = TRUE
    /\ removal_limit = 0
    /\ first_removal = TRUE
    /\ scroll_count = 0
    /\ no_new_followers_count = 0
    /\ new_followers_found = 0
    /\ batch_bots = <<>>
    /\ batch_pos = 1
    /\ last_height = 0
    /\ same_height_count = 0
    /\ scanned_usernames = {}
    /\ followers = <<>>
    /\ removed_count = 0
    /\ failed_count = 0
    /\ pc = "idle"
    /\ stop_reason = ""
    /\ ticks = 0
    /\ scrolls = 0
    /\ attempts = <<>>
    /\ prompts = 0
    /\ declined = FALSE
    /\ declined_len = 0
    /\ empty_streak = 0
    /\ presented = {}
    /\ dup_seen = FALSE
    /\ tick_bots = <<>>

(***************************************************************************)
(* _remove_follower_from_cell, step by step                                *)
(*                                                                         *)
(* rm.d records how the driver has behaved so far in the call, rm.follower *)
(* is the bot record the caller passes, rm.menu_open tells whether the     *)
(* cell's dropdown is showing, rm.escapes counts Escape key presses.       *)
(***************************************************************************)
\* the driver has not been asked anything yet
NoBehaviour ==
    [scroll_raises |-> FALSE, more_btn |-> "none", more_click_raises |-> FALSE,
     menu |-> "timeout", remove_click_raises |-> FALSE, confirm |-> "absent"]

\* the bot records a batch can hold
BotRecords == {Extracted[c] : c \in {x \in CellUniverse : Extracted[x].is_bot}}

\* TwitterCleaner._handle_confirmation_dialog: TRUE iff it returns normally.
\* Both except clauses end the handler without re-raising.
handle_confirmation_dialog(confirm) == confirm \in {"absent", "clicked", "click_raises"}

\* no key is pressed
PressEscape_NoPress(r, raises) == r

\* "await self.page.keyboard.press("Escape")" on the attempt's record: the
\* press is issued; it dismisses the menu unless the driver call raises
PressEscape(r, raises) ==
    [r EXCEPT !.escapes = @ + 1,
              !.menu_open = IF raises THEN @ ELSE FALSE]

RmInit ==
    /\ EngineIdle
    /\ nv = nvIdle
    /\ sc = scIdle
    /\ cp = cpIdle
    /\ rf = rfIdle
    /\ pb = pbIdle
    /\ mn = mnIdle
    /\ cl = clIdle
    /\ lg = lgIdle
    /\ rn = rnIdle
    /\ \E f \in BotRecords :
         rm = [pc |-> "scroll", d |-> NoBehaviour, follower |-> f,
               success |-> FALSE, menu_open |-> FALSE, escapes |-> 0,
               confirm_clicked |-> FALSE]

\* cell.scroll_into_view_if_needed()
RmScrollIntoView ==
    /\ rm.pc = "scroll"
    /\ \E raises \in BOOLEAN :
         rm' = [rm EXCEPT !.d.scroll_raises = raises,
                          !.pc = IF raises THEN "except" ELSE "find_more"]
    /\ UNCHANGED << engineVars, cl, lg, rn, nv, mn, sc, rf, pb, cp >>

\* the menu_selectors loop, the aria-label fallback, "if not more_btn"
RmFindMoreButton ==
    /\ rm.pc = "find_more"
    /\ \E found \in {"selector", "fallback", "none"} :
         rm' = [rm EXCEPT !.d.more_btn = found,
                          !.pc = IF found = "none" THEN "returned"
                                 ELSE "click_more",
                          !.success = FALSE]
    /\ UNCHANGED << engineVars, cl, lg, rn, nv, mn, sc, rf, pb, cp >>

\* more_btn.click()
RmClickMore ==
    /\ rm.pc = "click_more"
    /\ \E raises \in BOOLEAN :
         rm' = [rm EXCEPT !.d.more_click_raises = raises,
                          !.menu_open = ~raises,
                          !.pc = IF raises THEN "except" ELSE "find_remove"]
    /\ UNCHANGED << engineVars, cl, lg, rn, nv, mn, sc, rf, pb, cp >>

\* _find_remove_button and "if not remove_btn": Escape, return False.  An
\* Escape press that raises there is caught by the function's except clause.
RmFindRemoveButton ==
    /\ rm.pc = "find_remove"
    /\ \E menu \in {"match", "no_match", "timeout"}, escape_raises \in BOOLEAN :
         LET d == [rm.d EXCEPT !.menu = menu]
         IN  IF find_remove_button(d)
             THEN /\ ~escape_raises
                  /\ rm' = [rm EXCEPT !.d = d, !.pc = "click_remove"]
             ELSE IF escape_raises
             THEN rm' = [PressEscape(rm, TRUE) EXCEPT !.d = d, !.pc = "except"]
             ELSE rm' = [PressEscape(rm, FALSE) EXCEPT !.d = d,
                                                       !.pc = "returned",
                                                       !.success = FALSE]
    /\ UNCHANGED << engineVars, cl, lg, rn, nv, mn, sc, rf, pb, cp >>

\* remove_btn.click(): the click closes the dropdown
RmClickRemove ==
    /\ rm.pc = "click_remove"
    /\ \E raises \in BOOLEAN :
         rm' = [rm EXCEPT !.d.remove_click_raises = raises,
                          !.menu_open = raises,
                          !.pc = IF raises THEN "except" ELSE "confirm_dialog"]
    /\ UNCHANGED << engineVars, cl, lg, rn, nv, mn, sc, rf, pb, cp >>

\* "await self._handle_confirmation_dialog()" and "return True"
RmConfirmDialog ==
    /\ rm.pc = "confirm_dialog"
    /\ \E confirm \in {"absent", "clicked", "click_raises"} :
         IF handle_confirmation_dialog(confirm)
         THEN rm' = [rm EXCEPT !.d.confirm = confirm,
                               !.confirm_clicked = (confirm = "clicked"),
                               !.success = TRUE,
                               !.pc = "returned"]
         ELSE rm' = [rm EXCEPT !.d.confirm = confirm, !.pc = "except"]
    /\ UNCHANGED << engineVars, cl, lg, rn, nv, mn, sc, rf, pb, cp >>

\* "except Exception": Escape (its own failure is ignored), return False
RmExcept ==
    /\ rm.pc = "except"
    /\ \E raises \in BOOLEAN :
         rm' = [PressEscape(rm, raises) EXCEPT !.success = FALSE,
                                               !.pc = "returned"]
    /\ UNCHANGED << engineVars, cl, lg, rn, nv, mn, sc, rf, pb, cp >>

\* the caller's "if success: ... else: ..." on the record
RmMark ==
    /\ rm.pc = "returned"
    /\ rm' = [rm EXCEPT !.follower = MarkResult(@, rm.success),
                        !.pc = "marked"]
    /\ UNCHANGED << engineVars, cl, lg, rn, nv, mn, sc, rf, pb, cp >>

RmNext ==
    \/ RmScrollIntoView
    \/ RmFindMoreButton
    \/ RmClickMore
    \/ RmFindRemoveButton
    \/ RmClickRemove
    \/ RmConfirmDialog
    \/ RmExcept
    \/ RmMark

RemoveSpec == RmInit /\ [][RmNext]_vars

\* some step of the attempt failed, as read off the driver's behaviour
StepFailed(d) ==
    \/ d.scroll_raises
    \/ d.more_btn = "none"
    \/ d.more_click_raises
    \/ d.menu # "match"
    \/ d.remove_click_raises
    \/ d.confirm = "click_raises"

\* C11: an attempt in which any step fails (no more button, no remove entry,
\* a click that raises or times out, a confirmation button that appears but
\* whose activation fails) returns failure, and the caller leaves the record
\* not removed with removal_error set.
C11_AnyFailedStepReturnsFailure ==
    /\ (rm.pc \in {"returned", "marked"} /\ StepFailed(rm.d)) => ~rm.success
    /\ (rm.pc = "marked" /\ StepFailed(rm.d)) =>
           (~rm.follower.removed /\ rm.follower.removal_error # "")

\* the click on the more-actions button was made and did not raise
MenuWasOpened(d) ==
    ~d.scroll_raises /\ d.more_btn # "none" /\ ~d.more_click_raises

\* C31: in the batch path, whenever _remove_follower_from_cell returns
\* failure after the more-actions menu was opened, an Escape key press was
\* issued before it returned.
C31_EscapeBeforeFailureReturn ==
    (rm.pc \in {"returned", "marked"} /\ ~rm.success /\ MenuWasOpened(rm.d))
        => rm.escapes >= 1

\* the menu opened, no remove entry was found, Escape dismissed the menu
C31_Witness ==
    /\ rm.pc = "returned"
    /\ ~rm.success
    /\ MenuWasOpened(rm.d)
    /\ rm.d.menu = "no_match"
    /\ rm.escapes = 1
    /\ ~rm.menu_open

\* the step machine and the function used by the engine agree
RmAgreesWithFunction ==
    rm.pc \in {"returned", "marked"} =>
        rm.success = remove_follower_from_cell(rm.d).success


(***************************************************************************)
(* is_bot_username as a call: a username is given, the pair is returned    *)
(***************************************************************************)
\* usernames are built from at most MaxParts blocks
MaxParts == 3

\* single characters of each class, and runs long enough for every pattern
Blocks ==
    { <<"a">>, <<"z">>, <<"Z">>, <<"_">>, <<"1">>, <<"2">>,
      <<"1", "2", "3">>, <<"2", "0", "2", "4">>, <<"1", "1", "1", "1", "1">>,
      <<"1", "2", "1", "2">>, <<"a", "b", "c", "d", "e", "f">> }

RECURSIVE Flatten(_)
Flatten(bs) == IF bs = <<>> THEN <<>> ELSE Head(bs) \o Flatten(Tail(bs))

UsernameInputs ==
    UNION { {Flatten(bs) : bs \in [1..n -> Blocks]} : n \in 0..MaxParts }

ClInit ==
    /\ EngineIdle
    /\ nv = nvIdle
    /\ sc = scIdle
    /\ cp = cpIdle
    /\ rf = rfIdle
    /\ pb = pbIdle
    /\ mn = mnIdle
    /\ rm = rmIdle
    /\ lg = lgIdle
    /\ rn = rnIdle
    /\ \E u \in UsernameInputs :
         cl = [stage |-> "called", username |-> u, result |-> <<FALSE, "">>]

\* the call returns
ClReturn ==
    /\ cl.stage = "called"
    /\ cl' = [cl EXCEPT !.stage = "returned",
                        !.result = is_bot_username(cl.username)]
    /\ UNCHANGED << engineVars, rm, lg, rn, nv, mn, sc, rf, pb, cp >>

ClNext == ClReturn

ClassifySpec == ClInit /\ [][ClNext]_vars

\* s ends with n digit characters
EndsWithDigits(s, n) ==
    Len(s) >= n /\ \A i \in (Len(s) - n + 1)..Len(s) : s[i] \in Digits

\* C12: a username that ends in a run of at least K = 5 digits is returned as
\* (TRUE, the digit-suffix reason), whatever other patterns it matches.
C12_DigitSuffixFlagged ==
    (cl.stage = "returned" /\ EndsWithDigits(cl.username, 5)) =>
        cl.result = <<TRUE, DigitSuffixReason>>

\* a name with letters before its five digits, which no auxiliary pattern flags
C12_Witness ==
    /\ cl.stage = "returned"
    /\ EndsWithDigits(cl.username, 5)
    /\ ~EndsWithDigits(cl.username, 6)
    /\ cl.username[1] \in LowerLetters
    /\ \A i \in 1..Len(SuspiciousReason) : ~suspicious_patterns(i, cl.username)
    /\ cl.result[1]

\* C13: a username that ends with three or more digits is returned as
\* (TRUE, "Username ends with 3+ consecutive digits").
C13_ThreeDigitSuffixFlagged ==
    (cl.stage = "returned" /\ EndsWithDigits(cl.username, 3)) =>
        cl.result = <<TRUE, "Username ends with 3+ consecutive digits">>

\* C14: a username without any digit, the empty one included, is returned as
\* (FALSE, "").
C14_DigitFreeNotFlagged ==
    (cl.stage = "returned" /\ \A i \in 1..Len(cl.username) : cl.username[i] \notin Digits)
        => cl.result = <<FALSE, "">>

\* twelve or more hex letters and no digit: the hex rule's lookahead rejects it
C14_Witness ==
    /\ cl.stage = "returned"
    /\ Len(cl.username) >= 12
    /\ AllIn(cl.username, HexLetters)
    /\ cl.result = <<FALSE, "">>

\* C15: a username that ends with "_" and a four-digit number starting with 1
\* or 2 is classified as a bot.
C15_YearSuffixFlagged ==
    LET u == cl.username
        n == Len(u)
    IN  (/\ cl.stage = "returned"
         /\ n >= 5
         /\ u[n - 4] = "_"
         /\ u[n - 3] \in {"1", "2"}
         /\ EndsWithDigits(u, 3)) => cl.result[1]

\* C16: a username in which one digit occurs five times in a row, at any
\* position, is classified as a bot.
C16_RepeatedDigitFlagged ==
    LET u == cl.username
    IN  (/\ cl.stage = "returned"
         /\ \E i \in 1..(Len(u) - 4) :
               u[i] \in Digits /\ \A j \in (i + 1)..(i + 4) : u[j] = u[i])
        => cl.result[1]


\* the rules by position: 0 is the digit-suffix rule, 1..10 the auxiliary ones
RuleIds == 0..Len(SuspiciousReason)

RuleMatches(k, u) ==
    IF k = 0 THEN digit_suffix_pattern(u) ELSE suspicious_patterns(k, u)

RuleReason(k) == IF k = 0 THEN DigitSuffixReason ELSE SuspiciousReason[k]

\* the rules tried in the given order, the first match returned
FirstMatchIn(order, u) ==
    LET hits == {i \in 1..Len(order) : RuleMatches(order[i], u)}
    IN  IF hits = {} THEN <<FALSE, "">>
        ELSE <<TRUE, RuleReason(order[CHOOSE i \in hits : \A j \in hits : i <= j])>>

ListOrder == [i \in 1..Cardinality(RuleIds) |-> i - 1]

\* the list order, its reverse, its rotations and its adjacent transpositions
RuleOrders ==
    LET n == Len(ListOrder)
    IN  {ListOrder, Reverse(ListOrder)}
        \cup {[i \in 1..n |-> ListOrder[((i + r - 1) % n) + 1]] : r \in 1..(n - 1)}
        \cup {[i \in 1..n |-> IF i = t THEN ListOrder[t + 1]
                              ELSE IF i = t + 1 THEN ListOrder[t]
                              ELSE ListOrder[i]] : t \in 1..(n - 1)}

\* C17: the verdict is the OR of all eleven rules and is the same in whatever
\* order the rules are tried; the pair returned is the first match in list
\* order, so only the reason depends on the order.
C17_VerdictIsOrOfRules ==
    cl.stage = "returned" =>
        /\ cl.result[1] = (\E k \in RuleIds : RuleMatches(k, cl.username))
        /\ cl.result = FirstMatchIn(ListOrder, cl.username)
        /\ \A o \in RuleOrders : FirstMatchIn(o, cl.username)[1] = cl.result[1]

\* a name that several rules match, for which another order reports another reason
C17_Witness ==
    /\ cl.stage = "returned"
    /\ cl.result[1]
    /\ Cardinality({k \in RuleIds : RuleMatches(k, cl.username)}) >= 2
    /\ \E o \in RuleOrders : FirstMatchIn(o, cl.username)[2] # cl.result[2]

\* the record _extract_follower_info builds from the classifier's answer
ClRecord == FollowerInfo(cl.username, cl.result[1], cl.result[2])

\* C36: for every record of the follower list, bot_reason is non-empty if
\* and only if is_bot is true.
C36_ReasonIffBot ==
    cl.stage = "returned" => (ClRecord.bot_reason # "" <=> ClRecord.is_bot)

\* a bot by one of the suspicious patterns only
C36_Witness ==
    /\ cl.stage = "returned"
    /\ ClRecord.is_bot
    /\ ClRecord.bot_reason \in {SuspiciousReason[k] : k \in 1..Len(SuspiciousReason)}


(***************************************************************************)
(* wait_for_login                                                          *)
(*                                                                         *)
(* lg.elapsed is the local elapsed (seconds); lg.checks, lg.pauses and     *)
(* lg.poll_sleeps count the _is_logged_in calls, the render pause and the  *)
(* sleeps of the polling loop; lg.seen_true tells whether some             *)
(* _is_logged_in call returned True.                                       *)
(***************************************************************************)
\* "max_wait_time = 300  # 5 minutes"
max_wait_time == 300

\* DELAYS["login_check_interval"]
login_check_interval == 2

\* what the page shows when _is_logged_in queries it
PageStates == {"profile_button", "home_timeline", "neither", "raises"}

\* TwitterCleaner._is_logged_in
is_logged_in(page) == page \in {"profile_button", "home_timeline"}

\* <= for <
KeepWaiting_Inclusive(elapsed) == elapsed <= max_wait_time

\* "while elapsed < max_wait_time"
KeepWaiting(elapsed) == elapsed < max_wait_time

\* the loop is left only by its condition, a successful check does not return
AfterCheck_KeepsPolling(logged, elapsed) ==
    IF KeepWaiting(elapsed) THEN "poll_sleep"
    ELSE IF logged THEN "return_true" ELSE "return_false"

\* what follows an _is_logged_in call: return True, another round, return False
AfterCheck(logged, elapsed) ==
    IF logged THEN "return_true"
    ELSE IF KeepWaiting(elapsed) THEN "poll_sleep" ELSE "return_false"

LgInit ==
    /\ EngineIdle
    /\ nv = nvIdle
    /\ sc = scIdle
    /\ cp = cpIdle
    /\ rf = rfIdle
    /\ pb = pbIdle
    /\ mn = mnIdle
    /\ cl = clIdle
    /\ rm = rmIdle
    /\ rn = rnIdle
    /\ lg = [pc |-> "goto", elapsed |-> 0, checks |-> 0, pauses |-> 0,
             poll_sleeps |-> 0, seen_true |-> FALSE, result |-> "none"]

\* what a check that returned `logged` does to the machine
LgChecked(logged, elapsed) ==
    LET next == AfterCheck(logged, elapsed)
    IN  [lg EXCEPT !.checks = @ + 1,
                   !.seen_true = @ \/ logged,
                   !.pc = IF next = "poll_sleep" THEN "poll_sleep" ELSE "returned",
                   !.result = IF next = "return_true" THEN "true"
                              ELSE IF next = "return_false" THEN "false"
                              ELSE "none"]

\* page.goto(URLS["base"]): a timeout is logged, any other exception leaves
\* the function
LgGoto ==
    /\ lg.pc = "goto"
    /\ \E outcome \in {"loaded", "timeout", "error"} :
         lg' = [lg EXCEPT !.pc = IF outcome = "error" THEN "raised" ELSE "pause"]
    /\ UNCHANGED << engineVars, cl, rm, rn, nv, mn, sc, rf, pb, cp >>

\* "await asyncio.sleep(3)": give the page a moment to render
LgRenderPause ==
    /\ lg.pc = "pause"
    /\ lg' = [lg EXCEPT !.pauses = @ + 1, !.pc = "first_check"]
    /\ UNCHANGED << engineVars, cl, rm, rn, nv, mn, sc, rf, pb, cp >>

\* "if await self._is_logged_in(): return True", then elapsed = 0 and the
\* first evaluation of the loop condition
LgFirstCheck ==
    /\ lg.pc = "first_check"
    /\ \E page \in PageStates : lg' = LgChecked(is_logged_in(page), 0)
    /\ UNCHANGED << engineVars, cl, rm, rn, nv, mn, sc, rf, pb, cp >>

\* the sleep at the top of the loop body and "elapsed += ..."
LgPollSleep ==
    /\ lg.pc = "poll_sleep"
    /\ lg' = [lg EXCEPT !.poll_sleeps = @ + 1,
                        !.elapsed = @ + login_check_interval,
                        !.pc = "poll_check"]
    /\ UNCHANGED << engineVars, cl, rm, rn, nv, mn, sc, rf, pb, cp >>

\* the check in the loop body and the next evaluation of the loop condition
LgPollCheck ==
    /\ lg.pc = "poll_check"
    /\ \E page \in PageStates : lg' = LgChecked(is_logged_in(page), lg.elapsed)
    /\ UNCHANGED << engineVars, cl, rm, rn, nv, mn, sc, rf, pb, cp >>

LgNext ==
    \/ LgGoto
    \/ LgRenderPause
    \/ LgFirstCheck
    \/ LgPollSleep
    \/ LgPollCheck

LoginSpec == LgInit /\ [][LgNext]_vars

\* the coroutine is run to its end: a sleep ends, a query answers
LoginFairSpec == LoginSpec /\ WF_vars(LgNext)

\* what the claim says besides the order of the first check and the sleeps
LoginResultMatchesChecks ==
    /\ (lg.result = "true") <=> lg.seen_true
    /\ lg.seen_true => lg.pc = "returned"
    /\ lg.result = "false" => (~lg.seen_true /\ lg.elapsed >= max_wait_time)

\* C18 as stated: the first check precedes every sleep; True is returned
\* exactly when a check returned true, and no check follows it; False is
\* returned only when every check up to the deadline returned false.
C18_CheckBeforeAnySleep ==
    /\ (lg.pauses + lg.poll_sleeps > 0) => lg.checks >= 1
    /\ LoginResultMatchesChecks

\* C18 amended: the first check follows the page load and one 3-second render
\* pause and precedes every sleep of the polling loop.
C18_CheckBeforeAnyPollSleep ==
    /\ lg.poll_sleeps > 0 => lg.checks >= 1
    /\ lg.checks = 0 => lg.pauses <= 1
    /\ lg.checks >= 1 => lg.pauses = 1
    /\ lg.checks = lg.poll_sleeps + (IF lg.pc \in {"returned", "poll_sleep"} THEN 1 ELSE 0)
           \/ lg.checks = 0
    /\ LoginResultMatchesChecks

\* True returned from inside the loop, after earlier checks returned false
C18_Witness ==
    /\ lg.pc = "returned"
    /\ lg.result = "true"
    /\ lg.checks >= 3
    /\ lg.pauses = 1

C19_Bounded ==
    /\ lg.elapsed <= max_wait_time
    /\ lg.poll_sleeps <= 150
    /\ (lg.pc = "returned" /\ ~lg.seen_true) =>
           /\ lg.result = "false"
           /\ lg.poll_sleeps = 150
           /\ lg.poll_sleeps * login_check_interval = max_wait_time
           /\ lg.checks = 151

\* C19: wait_for_login ends; when no check returns true it ends with False
\* after the initial check and exactly 150 polls, and elapsed never exceeds
\* max_wait_time.
C19_TimesOutAfter150Polls ==
    /\ []C19_Bounded
    /\ <>(lg.pc \in {"returned", "raised"})

C19_Witness ==
    /\ lg.pc = "returned"
    /\ lg.result = "false"
    /\ lg.poll_sleeps = 150


(***************************************************************************)
(* run                                                                     *)
(*                                                                         *)
(* The calls run makes are steps of this machine.  wait_for_login and      *)
(* scan_and_remove_in_batches have machines of their own above; here each  *)
(* is one step whose outcome is any outcome its machine can produce.       *)
(* rn.login_result and rn.nav_result remember what the two gates returned, *)
(* rn.page_loads, rn.scan_called, rn.report_files, rn.backup,              *)
(* rn.screenshots and rn.prompts what run did to the page and the disk.    *)
(***************************************************************************)
\* LIMITS["max_retry_attempts"]
max_retry_attempts == 3

\* records that scan_and_remove_in_batches leaves in self.followers
MaxScanned == 2

\* a record as extracted, and for a bot also after a removal attempt
RecordVariants(c) ==
    LET f == Extracted[c]
    IN  IF f.is_bot THEN {f, MarkResult(f, TRUE), MarkResult(f, FALSE)} ELSE {f}

ScannedRecords ==
    UNION {RecordVariants(c) : c \in {x \in CellUniverse : Extracted[x] # None}}

\* self.followers after scan_and_remove_in_batches: usernames are distinct,
\* and in a dry run no record carries the trace of an attempt
ScanResults(dry) ==
    {fs \in UNION {[1..n -> ScannedRecords] : n \in 0..MaxScanned} :
        /\ \A i, j \in 1..Len(fs) : fs[i].username = fs[j].username => i = j
        /\ dry => \A i \in 1..Len(fs) : ~fs[i].removed /\ fs[i].removal_error = ""}

FailedRecords(fs) == {i \in 1..Len(fs) : fs[i].removal_error # ""}

\* how a driver call made by main_async ends
CallOutcomes == {"ok", "raises", "interrupt"}

\* how cleaner.run ends; a report it returns has no errors (RunSpec)
RunOutcomes == {"returned", "raises", "interrupt"}

\* "return 0 if not report.errors else 1"
ReturnCode(errors) == IF errors = <<>> THEN 0 ELSE 1

\* a keyboard interrupt is reported like any other exception
ExitCode_InterruptAsError(leaving) ==
    CASE leaving.kind = "return" -> leaving.value
      [] OTHER                   -> 1

\* the except clauses of main_async and main, and sys.exit
ExitCode(leaving) ==
    CASE leaving.kind = "interrupt" -> 130
      [] leaving.kind = "exception" -> 1
      [] leaving.kind = "return"    -> leaving.value

Nothing == [kind |-> "none", value |-> 0]

Return(code) == [kind |-> "return", value |-> code]

\* what leaves a step that ended otherwise than normally
Leaving(outcome) ==
    [kind |-> IF outcome = "interrupt" THEN "interrupt" ELSE "exception",
     value |-> 0]

\* CleanupReport(user_id=..., session_start=...)
NewReport ==
    [dry_run |-> FALSE, total_followers_scanned |-> 0,
     bot_accounts_identified |-> 0, successfully_removed |-> 0,
     failed_removals |-> 0, followers |-> <<>>, session_end_set |-> 0,
     errors |-> <<>>]

\* the result of wait_for_login is not looked at
AfterLogin_IgnoresFailure(result, skip_confirmation) ==
    IF result = "raises" THEN "except"
    ELSE IF skip_confirmation THEN "navigate" ELSE "confirm"

\* "if not await self.wait_for_login(): raise RuntimeError(...)" and
\* "if not skip_confirmation"
AfterLogin(result, skip_confirmation) ==
    IF result # "true" THEN "except"
    ELSE IF skip_confirmation THEN "navigate" ELSE "confirm"

\* save_backup: "followers": [asdict(f) for f in followers if f.removed]
save_backup(fs) == SelectSeq(fs, LAMBDA f : f.removed)

\* a failed removal is also written to report.errors
FinalStats_FailuresAsErrors(report, fs, removed, failed) ==
    [report EXCEPT !.total_followers_scanned = Len(fs),
                   !.bot_accounts_identified = Cardinality(Bots(fs)),
                   !.successfully_removed = removed,
                   !.failed_removals = failed,
                   !.followers = fs,
                   !.session_end_set = @ + 1,
                   !.errors = IF failed > 0 THEN Append(@, "Failed to remove")
                              ELSE @]

\* "Update final stats": the six assignments to self.report
FinalStats(report, fs, removed, failed) ==
    [report EXCEPT !.total_followers_scanned = Len(fs),
                   !.bot_accounts_identified = Cardinality(Bots(fs)),
                   !.successfully_removed = removed,
                   !.failed_removals = failed,
                   !.followers = fs,
                   !.session_end_set = @ + 1]

\* the handler sets session_end and records nothing
RecordError_NoEntry(report, message) ==
    [report EXCEPT !.session_end_set = @ + 1]

\* "self.report.errors.append(str(e))" and the assignment of session_end
RecordError(report, message) ==
    [report EXCEPT !.errors = Append(@, message),
                   !.session_end_set = @ + 1]

\* the operator's answer is not looked at
AfterConfirm_IgnoresAnswer(answer) == "navigate"

\* "if not confirm_action(...): ... return self.report"
AfterConfirm(answer) == IF answer THEN "navigate" ELSE "returned"

RnInit ==
    /\ EngineIdle
    /\ nv = nvIdle
    /\ sc = scIdle
    /\ cp = cpIdle
    /\ rf = rfIdle
    /\ pb = pbIdle
    /\ mn = mnIdle
    /\ cl = clIdle
    /\ rm = rmIdle
    /\ lg = lgIdle
    /\ \E a \in [dry_run : BOOLEAN, skip_confirmation : BOOLEAN] :
         rn = [pc |-> "login", args |-> a, attempt |-> 0,
               followers |-> <<>>, removed_count |-> 0, failed_count |-> 0,
               report |-> [NewReport EXCEPT !.dry_run = a.dry_run],
               exc |-> "", login_result |-> "none", nav_result |-> "none",
               page_loads |-> 0, scan_called |-> FALSE, report_files |-> 0,
               backup |-> <<>>, backups |-> 0, screenshots |-> 0,
               screenshot_attempts |-> 0, prompts |-> 0,
               cleanup |-> "none", exit_code |-> -1, answer |-> "none"]

\* Step 1: wait_for_login returns True, returns False or raises
RnLogin ==
    /\ rn.pc = "login"
    /\ \E result \in {"true", "false", "raises"} :
         LET next == AfterLogin(result, rn.args.skip_confirmation)
         IN  rn' = [rn EXCEPT !.login_result = result,
                              !.pc = next,
                              !.exc = IF next # "except" THEN ""
                                      ELSE IF result = "raises"
                                      THEN "driver error"
                                      ELSE "Login failed or timed out"]
    /\ UNCHANGED << engineVars, cl, rm, lg, nv, mn, sc, rf, pb, cp >>

\* confirm_action("Proceed with scanning followers ...", default=True)
RnConfirm ==
    /\ rn.pc = "confirm"
    /\ \E answer \in BOOLEAN :
         IF answer
         THEN rn' = [rn EXCEPT !.prompts = @ + 1, !.answer = "yes",
                               !.pc = AfterConfirm(answer)]
         ELSE rn' = [rn EXCEPT !.prompts = @ + 1, !.answer = "no",
                               !.report.session_end_set = @ + 1,
                               !.pc = AfterConfirm(answer)]
    /\ UNCHANGED << engineVars, cl, rm, lg, nv, mn, sc, rf, pb, cp >>

\* Step 2: one iteration of the for loop of navigate_to_followers, and after
\* the last one "return False" and the RuntimeError raised by run
RnNavigateAttempt ==
    /\ rn.pc = "navigate"
    /\ rn.attempt < max_retry_attempts
    /\ \E outcome \in {"loaded", "timeout", "error"} :
         IF outcome = "loaded"
         THEN rn' = [rn EXCEPT !.attempt = @ + 1, !.page_loads = @ + 1,
                               !.nav_result = "true", !.pc = "scan"]
         ELSE IF rn.attempt + 1 < max_retry_attempts
         THEN rn' = [rn EXCEPT !.attempt = @ + 1, !.page_loads = @ + 1]
         ELSE rn' = [rn EXCEPT !.attempt = @ + 1, !.page_loads = @ + 1,
                               !.nav_result = "false", !.pc = "except",
                               !.exc = "Failed to navigate to followers page"]
    /\ UNCHANGED << engineVars, cl, rm, lg, nv, mn, sc, rf, pb, cp >>

\* Step 3: scan_and_remove_in_batches returns or raises, leaving its records
\* and counters in the cleaner
RnScan ==
    /\ rn.pc = "scan"
    /\ \E fs \in ScanResults(rn.args.dry_run), raises \in BOOLEAN :
         rn' = [rn EXCEPT !.scan_called = TRUE,
                          !.followers = fs,
                          !.removed_count = Cardinality(Removed(fs)),
                          !.failed_count = Cardinality(FailedRecords(fs)),
                          !.pc = IF raises THEN "except" ELSE "finalize",
                          !.exc = IF raises THEN "driver error" ELSE ""]
    /\ UNCHANGED << engineVars, cl, rm, lg, nv, mn, sc, rf, pb, cp >>

\* "Update final stats"
RnFinalize ==
    /\ rn.pc = "finalize"
    /\ rn' = [rn EXCEPT
                !.report = FinalStats(@, rn.followers, rn.removed_count,
                                      rn.failed_count),
                !.pc = "save_report"]
    /\ UNCHANGED << engineVars, cl, rm, lg, nv, mn, sc, rf, pb, cp >>

\* save_report(self.report), then "if self.removed_count > 0"
RnSaveReport ==
    /\ rn.pc = "save_report"
    /\ \E raises \in BOOLEAN :
         IF raises
         THEN rn' = [rn EXCEPT !.pc = "except", !.exc = "write error"]
         ELSE rn' = [rn EXCEPT !.report_files = @ + 1,
                               !.pc = IF rn.removed_count > 0
                                      THEN "save_backup" ELSE "summary"]
    /\ UNCHANGED << engineVars, cl, rm, lg, nv, mn, sc, rf, pb, cp >>

\* save_backup(self.followers, self.user_id): the removed records are written
RnSaveBackup ==
    /\ rn.pc = "save_backup"
    /\ \E raises \in BOOLEAN :
         IF raises
         THEN rn' = [rn EXCEPT !.pc = "except", !.exc = "write error"]
         ELSE rn' = [rn EXCEPT !.backups = @ + 1,
                               !.backup = save_backup(rn.followers),
                               !.pc = "summary"]
    /\ UNCHANGED << engineVars, cl, rm, lg, nv, mn, sc, rf, pb, cp >>

\* print_summary(self.report); return self.report
RnPrintSummary ==
    /\ rn.pc = "summary"
    /\ \E raises \in BOOLEAN :
         rn' = [rn EXCEPT !.pc = IF raises THEN "except" ELSE "returned",
                          !.exc = IF raises THEN "print error" ELSE ""]
    /\ UNCHANGED << engineVars, cl, rm, lg, nv, mn, sc, rf, pb, cp >>

\* "except Exception as e": the message is recorded, session_end is set
RnExcept ==
    /\ rn.pc = "except"
    /\ rn' = [rn EXCEPT !.report = RecordError(@, rn.exc),
                        !.pc = "screenshot"]
    /\ UNCHANGED << engineVars, cl, rm, lg, nv, mn, sc, rf, pb, cp >>

\* take_screenshot("error") inside try / except: pass, then "raise"
RnScreenshot ==
    /\ rn.pc = "screenshot"
    /\ \E raises \in BOOLEAN :
         rn' = [rn EXCEPT !.screenshots = IF raises THEN @ ELSE @ + 1,
                          !.screenshot_attempts = @ + 1,
                          !.pc = "raised"]
    /\ UNCHANGED << engineVars, cl, rm, lg, nv, mn, sc, rf, pb, cp >>

\* main_async after cleaner.run: "return 0 if not report.errors else 1" or
\* the exception of run, then the cleanup on leaving "async with" (which can
\* raise or be interrupted), the except clauses and sys.exit
RnMainExit ==
    /\ rn.pc \in {"returned", "raised"}
    /\ rn.exit_code = -1
    /\ \E cleanup \in CallOutcomes :
         LET leaving == IF cleanup # "ok" THEN Leaving(cleanup)
                        ELSE IF rn.pc = "returned"
                        THEN Return(ReturnCode(rn.report.errors))
                        ELSE Leaving("raises")
         IN  rn' = [rn EXCEPT !.cleanup = cleanup,
                              !.exit_code = ExitCode(leaving)]
    /\ UNCHANGED << engineVars, cl, rm, lg, nv, mn, sc, rf, pb, cp >>

RnNext ==
    \/ RnMainExit
    \/ RnLogin
    \/ RnConfirm
    \/ RnNavigateAttempt
    \/ RnScan
    \/ RnFinalize
    \/ RnSaveReport
    \/ RnSaveBackup
    \/ RnPrintSummary
    \/ RnExcept
    \/ RnScreenshot

RunSpec == RnInit /\ [][RnNext]_vars

\* the login gate returned False, or navigate_to_followers returned False
GateFailed == rn.login_result = "false" \/ rn.nav_result = "false"

\* C20: when the login gate returns False or navigate_to_followers returns
\* False, run is on its way to raising: it never harvests, classifies or
\* attempts a removal, writes neither report nor backup, and once the handler
\* has run report.errors holds exactly the error's message.
C20_GateFailureRaises ==
    GateFailed =>
        /\ rn.pc \in {"except", "screenshot", "raised"}
        /\ ~rn.scan_called
        /\ rn.followers = <<>> /\ rn.removed_count = 0 /\ rn.failed_count = 0
        /\ rn.report_files = 0
        /\ rn.backups = 0
        /\ rn.nav_result = "false" => rn.attempt = max_retry_attempts
        /\ rn.pc \in {"screenshot", "raised"} =>
               rn.report.errors =
                   << IF rn.login_result = "false"
                      THEN "Login failed or timed out"
                      ELSE "Failed to navigate to followers page" >>

\* run has raised after the third failed load of the followers page
C20_Witness ==
    /\ rn.pc = "raised"
    /\ rn.login_result = "true"
    /\ rn.nav_result = "false"
    /\ rn.page_loads = 3
    /\ Len(rn.report.errors) = 1


\* run has ended, one way or the other
RunEnded == rn.pc \in {"returned", "raised"}

\* the backup file holds the removed records of fs, all of them, in order
BackupHoldsRemovedOf(fs) ==
    /\ \A i \in 1..Len(rn.backup) : rn.backup[i].removed
    /\ Len(rn.backup) = Cardinality(Removed(fs))
    /\ \A i \in Removed(fs) : \E j \in 1..Len(rn.backup) : rn.backup[j] = fs[i]
    /\ \A i, j \in 1..Len(rn.backup) :
           i < j => \E a, b \in 1..Len(fs) :
                        a < b /\ fs[a] = rn.backup[i] /\ fs[b] = rn.backup[j]

\* C24: when run has ended, a backup has been written if and only
\* if some record has removed = TRUE, and it holds exactly the removed records.
C24_BackupIffRemoved ==
    RunEnded =>
        /\ rn.backups >= 1 <=> Removed(rn.followers) # {}
        /\ rn.backups >= 1 => BackupHoldsRemovedOf(rn.followers)

\* C25: the report is finalized once: session_end is assigned exactly once in
\* a run that has ended and never a second time, also when save_report,
\* save_backup or print_summary fails after the final stats were written.
C25_FinalizedOnce ==
    /\ rn.report.session_end_set <= 1
    /\ RunEnded => rn.report.session_end_set = 1
    /\ (rn.report_files >= 1 /\ RunEnded) => rn.report.errors = <<>>

\* C27: when run has raised, report.errors holds one entry, the message of
\* the exception that is re-raised; session_end is set and one screenshot was
\* attempted, whether or not it succeeded.
C27_ErrorRecordedAndReraised ==
    /\ rn.pc = "raised" =>
           /\ rn.report.errors = << rn.exc >>
           /\ rn.exc # ""
           /\ rn.report.session_end_set >= 1
           /\ rn.screenshot_attempts = 1
    /\ rn.pc \in {"except", "screenshot"} => rn.exc # ""
    /\ rn.pc \notin {"screenshot", "raised"} => rn.report.errors = <<>>
    /\ rn.screenshot_attempts > 0 => rn.pc = "raised"

\* save_report raised, the screenshot failed too, the exception is re-raised
C27_Witness ==
    /\ rn.pc = "raised"
    /\ rn.exc = "write error"
    /\ rn.report_files = 0
    /\ rn.screenshot_attempts = 1
    /\ rn.screenshots = 0

\* C26: in every state of the engine removed_count is the number of records
\* with removed = TRUE and failed_count the number of records with a
\* removal_error; the final stats that run computes from the engine's state
\* when it has returned therefore agree with the report's own follower list.
C26_CountersMatchRecords ==
    /\ removed_count = Cardinality(Removed(followers))
    /\ failed_count = Cardinality(FailedRecords(followers))
    /\ pc = "done" =>
           LET r == FinalStats(NewReport, followers, removed_count, failed_count)
           IN  /\ r.total_followers_scanned = Len(r.followers)
               /\ r.bot_accounts_identified =
                      Cardinality({i \in 1..Len(r.followers) : r.followers[i].is_bot})
               /\ r.successfully_removed =
                      Cardinality({i \in 1..Len(r.followers) : r.followers[i].removed})
               /\ r.failed_removals =
                      Cardinality({i \in 1..Len(r.followers) :
                                      r.followers[i].removal_error # ""})

\* the engine has returned with one record removed and another one failed
C26_Witness ==
    /\ pc = "done"
    /\ removed_count = 1
    /\ failed_count = 1
    /\ Len(followers) >= 2

\* error entries exist only on the reports of runs that raised
ErrorsOnlyWhenRaising ==
    /\ rn.pc = "returned" => rn.report.errors = <<>>
    /\ rn.report.errors # <<>> => rn.pc \in {"screenshot", "raised"}

\* C39 as stated: every report run returns normally has an empty errors
\* list, so a run that completes exits with code 0, also when removals failed
\* or the operator declined; error entries exist only on reports of runs that
\* raised.
C39_CompletedRunExitsZero ==
    /\ ErrorsOnlyWhenRaising
    /\ (rn.pc = "returned" /\ rn.exit_code # -1) => rn.exit_code = 0

\* C39 amended: the exit code of a completed run is 0 when the cleanup of
\* the browser that follows it completes; it is 1 when the cleanup raises and
\* 130 when it is interrupted.
C39_CompletedRunExitsZeroAfterCleanup ==
    /\ ErrorsOnlyWhenRaising
    /\ (rn.pc = "returned" /\ rn.exit_code # -1) =>
           /\ rn.exit_code = 0 <=> rn.cleanup = "ok"
           /\ rn.exit_code = 1 <=> rn.cleanup = "raises"
           /\ rn.exit_code = 130 <=> rn.cleanup = "interrupt"

\* a completed run with a failed removal exits with code 0
C39_Witness ==
    /\ rn.pc = "returned"
    /\ rn.report.failed_removals > 0
    /\ rn.report.errors = <<>>
    /\ rn.cleanup = "ok"
    /\ rn.exit_code = 0

\* C40: if the operator declines the initial confirmation of run
\* (skip_confirmation=False), run returns the report with session_end set and
\* all aggregates zero, and performs no navigation to the followers page, no
\* harvest, no removal, and writes no report or backup file.
C40_DeclineReturnsEmptyReport ==
    rn.answer = "no" =>
        /\ ~rn.args.skip_confirmation
        /\ rn.pc = "returned"
        /\ rn.report.session_end_set = 1
        /\ rn.report.total_followers_scanned = 0
        /\ rn.report.bot_accounts_identified = 0
        /\ rn.report.successfully_removed = 0
        /\ rn.report.failed_removals = 0
        /\ rn.report.followers = <<>>
        /\ rn.report.errors = <<>>
        /\ rn.page_loads = 0
        /\ rn.nav_result = "none"
        /\ ~rn.scan_called
        /\ rn.followers = <<>>
        /\ rn.removed_count = 0
        /\ rn.failed_count = 0
        /\ rn.report_files = 0
        /\ rn.backups = 0
        /\ rn.screenshot_attempts = 0

\* the operator declined in a live run, and the process then exited
C40_Witness ==
    /\ rn.answer = "no"
    /\ ~rn.args.dry_run
    /\ rn.login_result = "true"
    /\ rn.prompts = 1
    /\ rn.exit_code = 0

(***************************************************************************)
(* navigate_to_followers                                                   *)
(*                                                                         *)
(* nv.attempt is the loop variable; nv.gotos, nv.reloads and               *)
(* nv.retry_clicks count page.goto, page.reload and clicks on a Retry      *)
(* button; nv.failed counts the attempts that ended in an except clause;   *)
(* nv.cells_appeared tells whether wait_for_selector found follower cells. *)
(***************************************************************************)
\* what _handle_page_error meets: no error shown, a Retry button, the error
\* text without a button (the page is reloaded), or a driver exception
PageErrorStates == {"no_error", "retry_button", "error_text", "raises"}

\* TwitterCleaner._handle_page_error: its return value and what it did
handle_page_error(page) ==
    [handled |-> page \in {"retry_button", "error_text"},
     reloads |-> IF page = "error_text" THEN 1 ELSE 0,
     retry_clicks |-> IF page = "retry_button" THEN 1 ELSE 0]

\* one attempt too many
LastAttempt_OffByOne(attempt) == attempt >= max_retry_attempts

\* range(LIMITS["max_retry_attempts"]) is at its last value
LastAttempt(attempt) == attempt >= max_retry_attempts - 1

NvInit ==
    /\ EngineIdle
    /\ cl = clIdle
    /\ rm = rmIdle
    /\ lg = lgIdle
    /\ rn = rnIdle
    /\ mn = mnIdle
    /\ sc = scIdle
    /\ cp = cpIdle
    /\ rf = rfIdle
    /\ pb = pbIdle
    /\ nv = [pc |-> "goto", attempt |-> 0, gotos |-> 0, reloads |-> 0,
             retry_clicks |-> 0, failed |-> 0, cells_appeared |-> FALSE,
             result |-> "none"]

\* the end of an except clause: the next value of the loop variable, or
\* "return False" when the range is exhausted
NvNextAttempt(st) ==
    IF LastAttempt(st.attempt)
    THEN [st EXCEPT !.failed = @ + 1, !.pc = "returned", !.result = "false"]
    ELSE [st EXCEPT !.failed = @ + 1, !.attempt = @ + 1, !.pc = "goto"]

\* page.goto(url, wait_until="domcontentloaded", timeout=60000)
NvGoto ==
    /\ nv.pc = "goto"
    /\ \E outcome \in {"loaded", "timeout", "error"} :
         nv' = [nv EXCEPT !.gotos = @ + 1,
                          !.pc = IF outcome = "loaded" THEN "page_error"
                                 ELSE IF outcome = "timeout" THEN "on_timeout"
                                 ELSE "on_error"]
    /\ UNCHANGED << engineVars, cl, rm, lg, rn, mn, sc, rf, pb, cp >>

\* "if await self._handle_page_error()" inside the try block
NvHandlePageError ==
    /\ nv.pc = "page_error"
    /\ \E page \in PageErrorStates :
         LET h == handle_page_error(page)
         IN  nv' = [nv EXCEPT !.reloads = @ + h.reloads,
                              !.retry_clicks = @ + h.retry_clicks,
                              !.pc = "wait_cells"]
    /\ UNCHANGED << engineVars, cl, rm, lg, rn, mn, sc, rf, pb, cp >>

\* page.wait_for_selector(follower_cell, timeout=15000); return True
NvWaitCells ==
    /\ nv.pc = "wait_cells"
    /\ \E outcome \in {"found", "timeout", "error"} :
         nv' = IF outcome = "found"
               THEN [nv EXCEPT !.cells_appeared = TRUE, !.pc = "returned",
                               !.result = "true"]
               ELSE [nv EXCEPT !.pc = IF outcome = "timeout" THEN "on_timeout"
                                      ELSE "on_error"]
    /\ UNCHANGED << engineVars, cl, rm, lg, rn, mn, sc, rf, pb, cp >>

\* "except PlaywrightTimeout": _handle_page_error unless this was the last
\* attempt
NvOnTimeout ==
    /\ nv.pc = "on_timeout"
    /\ \E page \in PageErrorStates :
         LET h == IF LastAttempt(nv.attempt) THEN handle_page_error("no_error")
                  ELSE handle_page_error(page)
         IN  nv' = NvNextAttempt([nv EXCEPT !.reloads = @ + h.reloads,
                                            !.retry_clicks = @ + h.retry_clicks])
    /\ UNCHANGED << engineVars, cl, rm, lg, rn, mn, sc, rf, pb, cp >>

\* "except Exception"
NvOnError ==
    /\ nv.pc = "on_error"
    /\ nv' = NvNextAttempt(nv)
    /\ UNCHANGED << engineVars, cl, rm, lg, rn, mn, sc, rf, pb, cp >>

NvNext ==
    \/ NvGoto
    \/ NvHandlePageError
    \/ NvWaitCells
    \/ NvOnTimeout
    \/ NvOnError

NavigateSpec == NvInit /\ [][NvNext]_vars

\* what the claim says about the return value
NavigateResultMatchesAttempts ==
    /\ nv.result = "true" <=> nv.cells_appeared
    /\ nv.cells_appeared => nv.pc = "returned"
    /\ nv.result = "false" =>
           nv.failed = max_retry_attempts /\ nv.gotos = max_retry_attempts
    /\ nv.failed <= nv.gotos

\* C21 as stated: at most max_retry_attempts = 3 page loads are performed;
\* True is returned at the first attempt in which cells appear, with no
\* further attempt; False is returned only after three failed attempts.
C21_AtMostThreePageLoads ==
    /\ nv.gotos + nv.reloads <= 3
    /\ NavigateResultMatchesAttempts

\* C21 amended: at most three page.goto calls are made; every attempt can add
\* a page.reload through _handle_page_error, the timeout handler of the first
\* two attempts another one.
C21_AtMostThreeGotos ==
    /\ nv.gotos <= 3
    /\ nv.gotos <= nv.attempt + 1
    /\ nv.reloads <= 2 * nv.gotos
    /\ nv.reloads <= 5
    /\ NavigateResultMatchesAttempts

\* False returned after three attempts and five reloads in all
C21_Witness ==
    /\ nv.pc = "returned"
    /\ nv.result = "false"
    /\ nv.gotos = 3
    /\ nv.reloads = 5


(***************************************************************************)
(* main / main_async: the browser's lifetime and the exit code             *)
(*                                                                         *)
(* mn.driver and mn.context are the Playwright driver and the browser      *)
(* context; mn.leaving is what is on its way out of the "async with"       *)
(* block (a return value, an exception, a keyboard interrupt);             *)
(* mn.run_outcome, mn.interrupted, mn.init_raised and mn.cleanup_raised    *)
(* remember what happened; mn.exit_code is -1 until the process exits.     *)
(* A keyboard interrupt can arrive at every await.                         *)
(***************************************************************************)
MnInit ==
    /\ EngineIdle
    /\ cl = clIdle
    /\ rm = rmIdle
    /\ lg = lgIdle
    /\ rn = rnIdle
    /\ nv = nvIdle
    /\ sc = scIdle
    /\ cp = cpIdle
    /\ rf = rfIdle
    /\ pb = pbIdle
    /\ \E verbose \in BOOLEAN :
         mn = [pc |-> "start_driver", verbose |-> verbose, driver |-> "none",
               context |-> "none", page |-> "none", run_outcome |-> "none",
               leaving |-> Nothing, exit_code |-> -1, traceback |-> FALSE,
               interrupted |-> FALSE, init_raised |-> FALSE,
               cleanup_raised |-> FALSE]

\* a step of initialize_browser that does not complete: __aenter__ raises,
\* the body of "async with" and __aexit__ are skipped
MnInitFails(st, outcome) ==
    [st EXCEPT !.pc = "exit", !.leaving = Leaving(outcome),
               !.interrupted = (outcome = "interrupt"),
               !.init_raised = (outcome = "raises")]

\* a step of cleanup that does not complete: the rest of cleanup is skipped
MnCleanupFails(st, outcome) ==
    [st EXCEPT !.pc = "exit", !.leaving = Leaving(outcome),
               !.interrupted = @ \/ (outcome = "interrupt"),
               !.cleanup_raised = (outcome = "raises")]

\* self.playwright = await async_playwright().start()
MnStartDriver ==
    /\ mn.pc = "start_driver"
    /\ \E outcome \in CallOutcomes :
         mn' = IF outcome = "ok"
               THEN [mn EXCEPT !.driver = "started", !.pc = "launch_context"]
               ELSE MnInitFails(mn, outcome)
    /\ UNCHANGED << engineVars, cl, rm, lg, rn, nv, sc, rf, pb, cp >>

\* self.context = await self.playwright.chromium.launch_persistent_context(...)
MnLaunchContext ==
    /\ mn.pc = "launch_context"
    /\ \E outcome \in CallOutcomes :
         mn' = IF outcome = "ok"
               THEN [mn EXCEPT !.context = "open", !.pc = "get_page"]
               ELSE MnInitFails(mn, outcome)
    /\ UNCHANGED << engineVars, cl, rm, lg, rn, nv, sc, rf, pb, cp >>

\* "if self.context.pages: ... else: self.page = await self.context.new_page()"
MnGetPage ==
    /\ mn.pc = "get_page"
    /\ \/ mn' = [mn EXCEPT !.page = "first_page", !.pc = "run"]
       \/ \E outcome \in CallOutcomes :
            mn' = IF outcome = "ok"
                  THEN [mn EXCEPT !.page = "new_page", !.pc = "run"]
                  ELSE MnInitFails(mn, outcome)
    /\ UNCHANGED << engineVars, cl, rm, lg, rn, nv, sc, rf, pb, cp >>

\* "report = await cleaner.run(...)" and the return statement; whatever
\* leaves the block, __aexit__ is entered
MnRun ==
    /\ mn.pc = "run"
    /\ \E outcome \in RunOutcomes :
         mn' = [mn EXCEPT !.run_outcome = outcome,
                          !.leaving = IF outcome = "returned"
                                      THEN Return(ReturnCode(<<>>))
                                      ELSE Leaving(outcome),
                          !.interrupted = (outcome = "interrupt"),
                          !.pc = "close_context"]
    /\ UNCHANGED << engineVars, cl, rm, lg, rn, nv, sc, rf, pb, cp >>

\* cleanup: "if self.context: await self.context.close()"
MnCloseContext ==
    /\ mn.pc = "close_context"
    /\ \E outcome \in CallOutcomes :
         mn' = IF outcome = "ok"
               THEN [mn EXCEPT !.context = "closed", !.pc = "stop_driver"]
               ELSE MnCleanupFails(mn, outcome)
    /\ UNCHANGED << engineVars, cl, rm, lg, rn, nv, sc, rf, pb, cp >>

\* cleanup: "if self.playwright: await self.playwright.stop()"
MnStopDriver ==
    /\ mn.pc = "stop_driver"
    /\ \E outcome \in CallOutcomes :
         mn' = IF outcome = "ok"
               THEN [mn EXCEPT !.driver = "stopped", !.pc = "exit"]
               ELSE MnCleanupFails(mn, outcome)
    /\ UNCHANGED << engineVars, cl, rm, lg, rn, nv, sc, rf, pb, cp >>

\* the except clauses of main_async (the traceback is printed for an
\* exception when --verbose is given) and main; sys.exit(exit_code)
MnExit ==
    /\ mn.pc = "exit"
    /\ mn' = [mn EXCEPT !.exit_code = ExitCode(mn.leaving),
                        !.traceback = mn.verbose /\ mn.leaving.kind = "exception",
                        !.pc = "exited"]
    /\ UNCHANGED << engineVars, cl, rm, lg, rn, nv, sc, rf, pb, cp >>

MnNext ==
    \/ MnStartDriver
    \/ MnLaunchContext
    \/ MnGetPage
    \/ MnRun
    \/ MnCloseContext
    \/ MnStopDriver
    \/ MnExit

MainSpec == MnInit /\ [][MnNext]_vars

\* C22: when the process exits, a driver that was started has been stopped and
\* a context that was opened has been closed, whichever way run ended and
\* also when initialization or the closing of the context failed.
C22_BrowserAlwaysReleased ==
    mn.pc = "exited" => (mn.driver # "started" /\ mn.context # "open")

\* C23 as stated: the exit code is 0 exactly when run returned a report
\* without errors, 130 when a keyboard interrupt arrived, 1 otherwise.
C23_ExitCodeFollowsRun ==
    mn.pc = "exited" =>
        /\ mn.exit_code = 0 <=> mn.run_outcome = "returned"
        /\ mn.interrupted => mn.exit_code = 130
        /\ mn.exit_code \in {0, 1, 130}

\* C23 amended: 0 needs the cleanup to complete as well; an interrupt gives
\* 130 unless the cleanup that follows it raises; everything else gives 1.
C23_ExitCodeFollowsRunAndCleanup ==
    mn.pc = "exited" =>
        /\ mn.exit_code = 0 <=>
               (mn.run_outcome = "returned" /\ ~mn.cleanup_raised
                /\ ~mn.interrupted)
        /\ mn.exit_code = 130 <=> (mn.interrupted /\ ~mn.cleanup_raised)
        /\ mn.exit_code = 1 <=>
               (mn.init_raised \/ mn.cleanup_raised
                \/ (mn.run_outcome = "raises" /\ ~mn.interrupted))

\* run returned its report, the context was closed, stopping the driver raised
C23_Witness ==
    /\ mn.pc = "exited"
    /\ mn.run_outcome = "returned"
    /\ mn.context = "closed"
    /\ mn.cleanup_raised
    /\ mn.exit_code = 1

(***************************************************************************)
(* The scan loop of one tick: "for cell in cells" of                       *)
(* scan_and_remove_in_batches over every kind of cell a page can render    *)
(***************************************************************************)
MaxPage == 3

\* what page.query_selector_all(follower_cell) can return, failing cells
\* included
PageLists == UNION { [1..n -> PageCells] : n \in 0..MaxPage }

\* self.scanned_usernames and self.followers when the tick begins: a first
\* tick, or a later tick of a run that has met alice already
TickStarts ==
    { [scanned |-> {}, followers |-> <<>>, new_found |-> 0, batch |-> <<>>],
      [scanned |-> {Extracted[Cell("href", hrefAlice)].username},
       followers |-> <<Extracted[Cell("href", hrefAlice)]>>,
       new_found |-> 0, batch |-> <<>>] }

\* the tick has its cells; new_followers_found = 0 and batch_bots = []
ScInit ==
    /\ EngineIdle
    /\ cl = clIdle
    /\ rm = rmIdle
    /\ lg = lgIdle
    /\ rn = rnIdle
    /\ nv = nvIdle
    /\ mn = mnIdle
    /\ cp = cpIdle
    /\ rf = rfIdle
    /\ pb = pbIdle
    /\ \E cells \in PageLists, st \in TickStarts :
         sc = [pc |-> "scan", cells |-> cells, i |-> 1, st |-> st,
               errors |-> <<>>]

\* one iteration of "for cell in cells"; _extract_follower_info catches what
\* the driver raises and nothing is written to report.errors
ScCell ==
    /\ sc.pc = "scan"
    /\ sc.i <= Len(sc.cells)
    /\ sc' = [sc EXCEPT !.st = ScanCell(sc.st, sc.cells[sc.i]),
                        !.i = sc.i + 1]
    /\ UNCHANGED << engineVars, cl, rm, lg, rn, nv, mn, rf, pb, cp >>

\* the for loop is exhausted
ScDone ==
    /\ sc.pc = "scan"
    /\ sc.i > Len(sc.cells)
    /\ sc' = [sc EXCEPT !.pc = "scanned"]
    /\ UNCHANGED << engineVars, cl, rm, lg, rn, nv, mn, rf, pb, cp >>

ScNext == ScCell \/ ScDone

ScanSpec == ScInit /\ [][ScNext]_vars

\* the cells C28 lists: no profile link, a driver exception, no or an empty
\* href, the href "/", a reserved path
FailsExtraction(cell) ==
    \/ cell.kind \in {"nolink", "nohref", "raises"}
    \/ cell.href \in { <<>>, <<"/">>, hrefHome, hrefExplore, hrefNotifications,
                       hrefMessages }

\* the loop has just handled the cell sc.cells[sc.i]
ScHandled == sc.pc = "scan" /\ sc'.i = sc.i + 1

\* when the loop ends every cell was visited and every extractable one is in
\* the seen-set
ScAllProcessed ==
    sc.pc = "scanned" =>
        /\ sc.i = Len(sc.cells) + 1
        /\ \A k \in 1..Len(sc.cells) :
               ~FailsExtraction(sc.cells[k]) =>
                   FirstSegment(Strip(sc.cells[k].href)) \in sc.st.scanned

\* C28: a cell whose extraction fails adds no record to the follower list,
\* nothing to the seen-set, is not counted as new, adds no entry to
\* report.errors, and the loop goes on to the remaining cells of the tick.
C28_FailedCellLeavesNoTrace ==
    /\ [][ (ScHandled /\ FailsExtraction(sc.cells[sc.i])) =>
               /\ sc'.st.followers = sc.st.followers
               /\ sc'.st.scanned = sc.st.scanned
               /\ sc'.st.new_found = sc.st.new_found
               /\ sc'.st.batch = sc.st.batch
               /\ sc'.errors = sc.errors
               /\ sc'.pc = "scan" ]_vars
    /\ []ScAllProcessed

\* a cell whose driver call raised is followed by a bot that is recorded
C28_Witness ==
    /\ sc.pc = "scanned"
    /\ Len(sc.cells) >= 2
    /\ sc.cells[1].kind = "raises"
    /\ sc.cells[2] = Cell("href", hrefBot)
    /\ sc.st.new_found = 1
    /\ sc.st.batch = <<Len(sc.st.followers)>>
    /\ sc.errors = <<>>

(***************************************************************************)
(* remove_follower(username): the targeted removal path                    *)
(***************************************************************************)
\* one attempt more than the range allows
MoreAttempts_OneExtra(attempt) == attempt + 1 <= max_retry_attempts

\* "for attempt in range(LIMITS["max_retry_attempts"])": another iteration
\* follows the one numbered attempt
MoreAttempts(attempt) == attempt + 1 < max_retry_attempts

\* "if attempt < LIMITS["max_retry_attempts"] - 1" under "if not more_btn"
NoButtonRetry(attempt) == attempt < max_retry_attempts - 1

\* what a driver call that can raise does
CallResults == {"ok", "timeout", "raises"}

\* the except clause a failed call lands in
Handler(result) == IF result = "timeout" THEN "timeout" ELSE "exception"

\* The attempt ends: what it did is written to the log.
\*   outcome        "removed", "cell_missing", "no_button", "entry_missing",
\*                  "timeout", "exception"
\*   opened         more_btn.click() returned
\*   entry_missing  _find_remove_button returned None
\*   escapes        Escape presses issued during the attempt
EndAttempt(r, outcome) ==
    [r EXCEPT !.log = Append(@, [outcome |-> outcome, opened |-> r.opened,
                                 entry_missing |-> r.entry_missing,
                                 escapes |-> r.escapes])]

\* a return statement inside the loop
RfReturn(r, outcome, value) ==
    [EndAttempt(r, outcome) EXCEPT !.pc = "returned", !.result = value]

\* the loop goes to its next iteration, or falls through to the final
\* "return False"
RfNextAttempt(r, outcome) ==
    IF MoreAttempts(r.attempt)
    THEN [EndAttempt(r, outcome) EXCEPT !.pc = "find_cell", !.attempt = @ + 1,
                                        !.opened = FALSE, !.escapes = 0,
                                        !.entry_missing = FALSE]
    ELSE RfReturn(r, outcome, "false")

RfInit ==
    /\ EngineIdle
    /\ cl = clIdle
    /\ rm = rmIdle
    /\ lg = lgIdle
    /\ rn = rnIdle
    /\ nv = nvIdle
    /\ mn = mnIdle
    /\ sc = scIdle
    /\ cp = cpIdle
    /\ pb = pbIdle
    /\ rf = [pc |-> "find_cell", attempt |-> 0, opened |-> FALSE,
             entry_missing |-> FALSE, escapes |-> 0, log |-> <<>>,
             result |-> "none"]

\* "target_cell = await self._find_user_cell(username)", "if not target_cell"
RfFindUserCell ==
    /\ rf.pc = "find_cell"
    /\ \E cell \in {"found", "none", "timeout", "raises"} :
         rf' = IF cell = "found" THEN [rf EXCEPT !.pc = "find_more"]
               ELSE IF cell = "none" THEN RfReturn(rf, "cell_missing", "false")
               ELSE RfNextAttempt(rf, Handler(cell))
    /\ UNCHANGED << engineVars, cl, rm, lg, rn, nv, mn, sc, pb, cp >>

\* the menu_selectors loop, the aria-label fallback, "if not more_btn"
RfFindMoreButton ==
    /\ rf.pc = "find_more"
    /\ \E btn \in {"found", "none", "timeout", "raises"} :
         rf' = IF btn = "found" THEN [rf EXCEPT !.pc = "click_more"]
               ELSE IF btn = "none"
               THEN IF NoButtonRetry(rf.attempt)
                    THEN RfNextAttempt(rf, "no_button")
                    ELSE RfReturn(rf, "no_button", "false")
               ELSE RfNextAttempt(rf, Handler(btn))
    /\ UNCHANGED << engineVars, cl, rm, lg, rn, nv, mn, sc, pb, cp >>

\* more_btn.click()
RfClickMore ==
    /\ rf.pc = "click_more"
    /\ \E click \in CallResults :
         rf' = IF click = "ok"
               THEN [rf EXCEPT !.opened = TRUE, !.pc = "find_remove"]
               ELSE RfNextAttempt(rf, Handler(click))
    /\ UNCHANGED << engineVars, cl, rm, lg, rn, nv, mn, sc, pb, cp >>

\* _find_remove_button and "if not remove_btn": Escape, return False; an
\* Escape press that raises lands in the except clauses of the loop
RfFindRemoveButton ==
    /\ rf.pc = "find_remove"
    /\ \E found \in BOOLEAN, escape \in CallResults :
         IF found
         THEN /\ escape = "ok"
              /\ rf' = [rf EXCEPT !.pc = "click_remove"]
         ELSE LET pressed == [rf EXCEPT !.entry_missing = TRUE,
                                        !.escapes = @ + 1]
              IN  rf' = IF escape = "ok"
                        THEN RfReturn(pressed, "entry_missing", "false")
                        ELSE RfNextAttempt(pressed, Handler(escape))
    /\ UNCHANGED << engineVars, cl, rm, lg, rn, nv, mn, sc, pb, cp >>

\* remove_btn.click(), _handle_confirmation_dialog (which swallows its own
\* exceptions), "return True"
RfClickRemove ==
    /\ rf.pc = "click_remove"
    /\ \E click \in CallResults :
         rf' = IF click = "ok" THEN RfReturn(rf, "removed", "true")
               ELSE RfNextAttempt(rf, Handler(click))
    /\ UNCHANGED << engineVars, cl, rm, lg, rn, nv, mn, sc, pb, cp >>

RfNext ==
    \/ RfFindUserCell
    \/ RfFindMoreButton
    \/ RfClickMore
    \/ RfFindRemoveButton
    \/ RfClickRemove

RemoveFollowerSpec == RfInit /\ [][RfNext]_vars

\* C32: in remove_follower, whenever an attempt fails after the more-actions
\* menu was opened (remove entry not found, or a click raises or times
\* out), an Escape key press is issued before the next attempt starts or the
\* function returns.
C32_EscapeAfterFailedAttempt ==
    \A k \in 1..Len(rf.log) :
        (rf.log[k].opened /\ rf.log[k].outcome # "removed")
            => rf.log[k].escapes >= 1

\* the ways an attempt can end that the loop answers with another attempt
RetriedOutcomes == {"timeout", "exception", "no_button"}

\* what C33 and its amendment share: at most max_retry_attempts attempts, True
\* exactly at the attempt that clicked the remove entry, a retry after and
\* only after a timeout, an exception or a missing more-actions button
RfAttemptsBounded ==
    /\ Len(rf.log) <= max_retry_attempts
    /\ \A k \in 1..(Len(rf.log) - 1) : rf.log[k].outcome \in RetriedOutcomes
    /\ rf.pc = "returned" =>
           /\ Len(rf.log) >= 1
           /\ rf.result = "true" <=> rf.log[Len(rf.log)].outcome = "removed"
           /\ rf.result = "false" <=> rf.log[Len(rf.log)].outcome # "removed"
           /\ rf.log[Len(rf.log)].outcome \in RetriedOutcomes
                  => Len(rf.log) = max_retry_attempts

\* C33 as stated: at most three attempts, True at the first attempt that
\* clicked the remove entry, a retry after a timeout, an exception or a missing
\* more-actions button, and False without a retry when the cell is not found
\* or the remove entry is missing.
C33_RetriesAsStated ==
    /\ RfAttemptsBounded
    /\ \A k \in 1..Len(rf.log) :
           (rf.log[k].outcome = "cell_missing" \/ rf.log[k].entry_missing)
               => (k = Len(rf.log) /\ rf.pc = "returned"
                   /\ rf.result = "false")

\* C33 amended: a missing remove entry ends the call without a retry only
\* when the Escape press that follows it returns; when that press raises or
\* times out the attempt counts as a timeout or an exception and is retried.
C33_RetriesUnlessEscapeRaises ==
    /\ RfAttemptsBounded
    /\ \A k \in 1..Len(rf.log) :
           (rf.log[k].outcome = "cell_missing" \/ rf.log[k].entry_missing)
               => \/ (k = Len(rf.log) /\ rf.pc = "returned"
                      /\ rf.result = "false")
                  \/ (rf.log[k].entry_missing
                      /\ rf.log[k].outcome \in {"timeout", "exception"}
                      /\ rf.log[k].escapes = 1
                      /\ (k < Len(rf.log) \/ rf.attempt = k))

\* the remove entry was missing in the first attempt, the Escape press
\* raised, and the second attempt removed the account
C33_Witness ==
    /\ rf.pc = "returned"
    /\ rf.result = "true"
    /\ Len(rf.log) = 2
    /\ rf.log[1].entry_missing
    /\ rf.log[1].outcome = "exception"

(***************************************************************************)
(* process_bot_removals: the per-username removal pass                     *)
(***************************************************************************)
\* the most bots self.followers holds when the pass begins
MaxBots == 11

\* "if consecutive_failures >= 5"
refresh_after_failures == 5

\* one failure too late
NeedsRefresh_AfterSix(consecutive) == consecutive >= refresh_after_failures + 1

\* "if consecutive_failures >= 5"
NeedsRefresh(consecutive) == consecutive >= refresh_after_failures

Min(a, b) == IF a <= b THEN a ELSE b

\* removal_limit = min(limit or cap, cap, len(bot_followers))
ToProcess(limit, nbots) ==
    Min(Min(IF limit # 0 THEN limit ELSE max_removals_per_session,
            max_removals_per_session), nbots)

\* the arguments of process_bot_removals and the number of bots in
\* self.followers
PbInputs ==
    [dry_run : BOOLEAN, limit : {0, 2, MaxBots + 1},
     require_confirmation : BOOLEAN, nbots : 0..MaxBots]

PbInit ==
    /\ EngineIdle
    /\ cl = clIdle
    /\ rm = rmIdle
    /\ lg = lgIdle
    /\ rn = rnIdle
    /\ nv = nvIdle
    /\ mn = mnIdle
    /\ sc = scIdle
    /\ cp = cpIdle
    /\ rf = rfIdle
    /\ \E a \in PbInputs :
         pb = [pc |-> "start", args |-> a, to_process |-> 0, i |-> 1,
               removed |-> 0, failed |-> 0, consecutive_failures |-> 0,
               prompts |-> 0, log |-> <<>>, result |-> -1]

\* everything before the loop: the empty list, the limit, dry_run, the
\* confirmation, the navigation before the removals
PbStart ==
    /\ pb.pc = "start"
    /\ \E answer \in BOOLEAN, navigated \in BOOLEAN :
         LET n == ToProcess(pb.args.limit, pb.args.nbots)
             asked == ~pb.args.dry_run /\ pb.args.require_confirmation
                      /\ pb.args.nbots > 0
             go == /\ pb.args.nbots > 0
                   /\ ~pb.args.dry_run
                   /\ (pb.args.require_confirmation => answer)
                   /\ navigated
         IN  /\ (~asked => answer)
             /\ ((~asked \/ ~answer \/ pb.args.dry_run \/ pb.args.nbots = 0)
                     => navigated)
             /\ pb' = [pb EXCEPT
                         !.to_process = IF pb.args.nbots > 0 THEN n ELSE 0,
                         !.prompts = IF asked THEN 1 ELSE 0,
                         !.pc = IF go /\ n >= 1 THEN "loop" ELSE "done",
                         !.result = IF go /\ n >= 1 THEN -1 ELSE 0]
    /\ UNCHANGED << engineVars, cl, rm, lg, rn, nv, mn, sc, rf, cp >>

\* One iteration of "for i, bot in enumerate(bots_to_process, 1)".  The log
\* takes "ok" or "fail" for the removal and "refresh_ok" or "refresh_failed"
\* for a call of navigate_to_followers.
PbRemove ==
    /\ pb.pc = "loop"
    /\ \E success \in BOOLEAN, refreshed \in BOOLEAN :
         LET c    == IF success THEN 0 ELSE pb.consecutive_failures + 1
             step == IF success THEN <<"ok">>
                     ELSE IF NeedsRefresh(c)
                     THEN <<"fail", IF refreshed THEN "refresh_ok"
                                    ELSE "refresh_failed">>
                     ELSE <<"fail">>
             last == pb.i = pb.to_process
             r    == IF success THEN pb.removed + 1 ELSE pb.removed
         IN  /\ ((success \/ ~NeedsRefresh(c)) => refreshed)
             /\ pb' = [pb EXCEPT
                         !.removed = r,
                         !.failed = IF success THEN @ ELSE @ + 1,
                         !.consecutive_failures =
                             IF NeedsRefresh(c) THEN 0 ELSE c,
                         !.log = @ \o step,
                         !.i = @ + 1,
                         !.pc = IF last THEN "done" ELSE "loop",
                         !.result = IF last THEN r ELSE -1]
    /\ UNCHANGED << engineVars, cl, rm, lg, rn, nv, mn, sc, rf, cp >>

PbNext == PbStart \/ PbRemove

ProcessSpec == PbInit /\ [][PbNext]_vars

\* the entries p-n .. p-1 of the log are all failures
FailuresBefore(p, n) ==
    /\ p - n >= 1
    /\ \A q \in (p - n)..(p - 1) : pb.log[q] = "fail"

IsRefresh(e) == e \in {"refresh_ok", "refresh_failed"}

\* removals attempted so far
PbAttempts == Cardinality({p \in 1..Len(pb.log) : ~IsRefresh(pb.log[p])})

\* the failures at the end of the log
RECURSIVE TrailingFailures(_)
TrailingFailures(log) ==
    IF log = <<>> \/ log[Len(log)] # "fail" THEN 0
    ELSE 1 + TrailingFailures(SubSeq(log, 1, Len(log) - 1))

\* C34: a page refresh is triggered exactly when five removals in a row failed
\* since the last success or refresh; the counter is reset by a success and
\* by the refresh, so it is in 0..4 between removals; a failed refresh does
\* not abort the remaining removals.
C34_RefreshAfterFiveFailures ==
    /\ \A p \in 1..Len(pb.log) :
           IsRefresh(pb.log[p]) => FailuresBefore(p, refresh_after_failures)
    /\ \A p \in 1..(Len(pb.log) + 1) :
           FailuresBefore(p, refresh_after_failures) =>
               (p <= Len(pb.log) /\ IsRefresh(pb.log[p]))
    /\ pb.pc \in {"loop", "done"} =>
           /\ pb.consecutive_failures \in 0..(refresh_after_failures - 1)
           /\ pb.consecutive_failures = TrailingFailures(pb.log)
    /\ (pb.pc = "done" /\ pb.log # <<>>) => PbAttempts = pb.to_process
    /\ PbAttempts = pb.i - 1

\* a refresh failed after the fifth failure and the pass went on to remove
\* the next account
C34_Witness ==
    /\ pb.pc = "done"
    /\ Len(pb.log) >= 7
    /\ pb.log[6] = "refresh_failed"
    /\ pb.log[7] = "ok"
    /\ pb.result = 1

(***************************************************************************)
(* The removals of one session counted against the session cap: the        *)
(* removal loop of scan_and_remove_in_batches on a followers list whose    *)
(* pages keep presenting bots not seen before                              *)
(***************************************************************************)
\* the limits a caller can pass: none, one, the cap, above the cap
CapLimits == {0, 1, max_removals_per_session, max_removals_per_session + 1}

\* the outcomes of _remove_follower_from_cell
AttemptOutcomes == {remove_follower_from_cell(d).success : d \in DriverBehaviours}

CpInit ==
    /\ EngineIdle
    /\ cl = clIdle
    /\ rm = rmIdle
    /\ lg = lgIdle
    /\ rn = rnIdle
    /\ nv = nvIdle
    /\ mn = mnIdle
    /\ sc = scIdle
    /\ rf = rfIdle
    /\ pb = pbIdle
    /\ \E limit \in CapLimits :
         cp = [pc |-> "loop", limit |-> limit,
               removal_limit |-> RemovalLimit(limit),
               removed_count |-> 0, failed |-> FALSE]

\* a removal attempt of the batch path; "if self.removed_count >=
\* removal_limit: break" precedes every attempt
CpAttempt ==
    /\ cp.pc = "loop"
    /\ ~LimitReached(cp.removed_count, cp.removal_limit)
    /\ \E success \in AttemptOutcomes :
         cp' = [cp EXCEPT !.removed_count = IF success THEN @ + 1 ELSE @,
                          !.failed = ~success]
    /\ UNCHANGED << engineVars, cl, rm, lg, rn, nv, mn, sc, rf, pb >>

\* the limit check after the removals of a tick ends the while loop
CpStop ==
    /\ cp.pc = "loop"
    /\ LimitReached(cp.removed_count, cp.removal_limit)
    /\ cp' = [cp EXCEPT !.pc = "done"]
    /\ UNCHANGED << engineVars, cl, rm, lg, rn, nv, mn, sc, rf, pb >>

CpNext == CpAttempt \/ CpStop

CapSpec == CpInit /\ [][CpNext]_vars

\* C38: the successful removals of one session never exceed
\* max_removals_per_session, whatever limit the caller passes, in the batch
\* path and in process_bot_removals.
C38_NeverAboveSessionCap ==
    cp.pc # "idle" => cp.removed_count <= max_removals_per_session

=============================================================================
